---- MODULE Spec2Model ----
(***************************************************************************)
(* State-machine model of the DirectInvestTracker backend: the refresh     *)
(* job (services/scheduler.py), the price history cache                    *)
(* (services/history_cache.py, routers/history.py), the currency resolver  *)
(* (routers/fx_rates.py, routers/summary.py), the portfolio summary and    *)
(* the account and position operations (routers/accounts.py,               *)
(* routers/positions.py, routers/ai.py).                                   *)
(*                                                                         *)
(* The specifications share the variables:                                 *)
(*   SpecSync   threads running sync_market_data against the refresh lock, *)
(*              with read requests in between;                             *)
(*   SpecCache  calls of _fetch_or_cache / get_history on the price cache; *)
(*   SpecFx     the cross-rate matrix and the snapshot FX lookup applied   *)
(*              to bounded rate maps;                                      *)
(*   SpecAgg    the aggregate history over bounded price and FX series;    *)
(*   SpecSnap   GET /summary over bounded tables, with cash movements;     *)
(*   SpecCrud   the REST and assistant operations on accounts and          *)
(*              positions, from an empty database.                         *)
(* Floating-point rates are modelled as exact rationals <<num, den>>.      *)
(***************************************************************************)
EXTENDS Integers, Sequences, FiniteSets, TLC

\* ------------------------------------------------------------------ bounds
\* Concurrent manual refresh requests (besides the one scheduler thread).
NManual == 1
\* Calls of sync_market_data in one behaviour (scheduled and manual together).
MaxCalls == 2

\* Points in one series returned by the price source.
MaxPoints == 2
\* Rows of the fx_rates snapshot the resolver is applied to.
MaxRows == 3
\* Cash movements recorded through the assistant.
MaxCash == 2
\* The largest id given to an account, and to a position, in the behaviours
\* of the account and position operations.
MaxStored == 2
\* Levels of nested calls of the matrix lookup that are followed.
MaxNesting == 3

\* ------------------------------------------------------------------ values
\* Optional values: None is the empty tuple, a present value x is <<x>>.
None == <<>>
Some(x) == <<x>>

Currencies == {"CAD", "EUR", "USD"}
\* Trading days (ordinals). isoformat() writes them with two digits.
Dates == {9, 10}
CloseVals == {5, 6}
CacheKeys == {"AAPL", "USDCAD=X"}

\* The quote of the price source at time t (a price that moves with time, so
\* that rows written by different refreshes differ).
PriceQuote(t) == 7 + t

\* str.upper() on the currency codes that are stored.
upper(s) ==
  CASE s = "usd" -> "USD"
    [] s = "cad" -> "CAD"
    [] s = "eur" -> "EUR"
    [] OTHER -> s

\* f"{from_ccy}/{to_ccy}"
PairKey(from_ccy, to_ccy) == from_ccy \o "/" \o to_ccy

\* ---------------------------------------------------------------- rationals
\* A float rate is the exact rational <<n, d>>, d > 0, in lowest terms.
\* <<1, 0>> stands for the ZeroDivisionError of a division by 0.0.
RECURSIVE Gcd(_, _)
Gcd(a, b) == IF b = 0 THEN a ELSE Gcd(b, a % b)
Abs(n) == IF n < 0 THEN -n ELSE n
DivError == <<1, 0>>
IsError(q) == q # <<>> /\ q[2] = 0
Norm(q) ==
  IF q[1] = 0 THEN <<0, 1>>
  ELSE LET g == Gcd(Abs(q[1]), q[2]) IN <<q[1] \div g, q[2] \div g>>
One == <<1, 1>>
\* p * q
RMul(p, q) ==
  IF IsError(p) \/ IsError(q) THEN DivError
  ELSE Norm(<<p[1] * q[1], p[2] * q[2]>>)
\* 1.0 / q
RInv(q) ==
  IF IsError(q) \/ q[1] = 0 THEN DivError
  ELSE IF q[1] > 0 THEN Norm(<<q[2], q[1]>>) ELSE Norm(<<-q[2], -q[1]>>)
RPos(q) == q[1] > 0
RZero(q) == q[1] = 0
\* float(n), p + q, p - q, p / q
RInt(n) == <<n, 1>>
RAdd(p, q) ==
  IF IsError(p) \/ IsError(q) THEN DivError
  ELSE Norm(<<p[1] * q[2] + q[1] * p[2], p[2] * q[2]>>)
RSub(p, q) ==
  IF IsError(p) \/ IsError(q) THEN DivError
  ELSE Norm(<<p[1] * q[2] - q[1] * p[2], p[2] * q[2]>>)
RDiv(p, q) == RMul(p, RInv(q))
\* sum(...) over the values of a function
RECURSIVE RSum(_)
RSum(f) ==
  IF DOMAIN f = {} THEN RInt(0)
  ELSE LET x == CHOOSE y \in DOMAIN f : TRUE
       IN  RAdd(f[x], RSum([z \in DOMAIN f \ {x} |-> f[z]]))

VARIABLES
  \* ---- persistence store (main database)
  accounts,      \* set of [id, base_currency]
  positions,     \* set of [id, account_id, symbol, category, quantity,
                 \* cost_per_share, date_added, currency]
  reporting_currency,  \* os.getenv("REPORTING_CURRENCY", "CAD")
  history_source,      \* what the price source answers: key -> daily series
  market_data,   \* committed rows [symbol, last_price, timestamp, call]
  fx_rates,      \* committed rows [pair, rate, timestamp, call]
  \* ---- refresh job
  sync_lock,     \* _sync_lock: TRUE when held
  pc,            \* thread -> position inside sync_market_data
  run,           \* thread -> id of the call it is executing (0: none)
  calls,         \* call id -> [busy, status]: busy = the lock was held when
                 \* the call tried it
  session,       \* thread -> [md, fx, equity_symbols, all_fx_pairs]: the rows
                 \* added to its db session and not yet committed, and the
                 \* locals of the call
  clock,         \* datetime.utcnow()
  \* ---- price history cache (its own SQLite file)
  price_cache,   \* rows [cache_key, trade_date, close] of table price_cache
  cpc,           \* "idle" | "running" | "returned": the history request
  creq,          \* the request: [op, key, start, use_cache, account_id, source]
  cres,          \* its result: [status, df, ext, io, before]
  \* ---- read requests
  rpc,           \* reader -> "idle" | "reading"
  rinfo,         \* reader -> [kind, during, overlapped, status] of its
                 \* current or last read: during = the refresh calls in
                 \* flight when it started, overlapped = they were still in
                 \* flight when it finished
  response       \* the body of the last currency read: [kind, body]

syncVars == <<market_data, fx_rates, sync_lock, pc, run, calls, session, clock>>
readVars == <<rpc, rinfo, response>>
dbVars == <<accounts, positions, reporting_currency, history_source>>
cacheVars == <<price_cache, cpc, creq, cres>>
vars == <<dbVars, syncVars, cacheVars, readVars>>

\* ------------------------------------------------------------ refresh job
\* Thread 0 is the APScheduler job thread; 1..NManual serve POST /refresh.
Threads == 0..NManual
Readers == {"r1"}

EmptySession == [md |-> {}, fx |-> {}, equity_symbols |-> {}, all_fx_pairs |-> {}]

\* The part of sync_market_data between acquiring and releasing the lock.
InSection == {"open", "query", "prices", "fx", "commit", "except", "finally"}

NewCall(isBusy, st) == Append(calls, [busy |-> isBusy, status |-> st])

\* if not _sync_lock.acquire(blocking=False): return
AcquireIgnoringResult(t) ==
  /\ UNCHANGED <<dbVars, cacheVars, readVars>>
  /\ pc[t] = "idle"
  /\ Len(calls) < MaxCalls
  /\ calls' = NewCall(sync_lock, "running")
  /\ sync_lock' = TRUE
  /\ pc' = [pc EXCEPT ![t] = "open"]
  /\ run' = [run EXCEPT ![t] = Len(calls) + 1]
  /\ UNCHANGED <<market_data, fx_rates, session, clock>>

AcquireBlocking(t) ==
  /\ UNCHANGED <<dbVars, cacheVars, readVars>>
  /\ \/ /\ pc[t] = "idle"
        /\ Len(calls) < MaxCalls
        /\ calls' = NewCall(sync_lock, "running")
        /\ run' = [run EXCEPT ![t] = Len(calls) + 1]
        /\ IF sync_lock
             THEN /\ pc' = [pc EXCEPT ![t] = "blocked"]
                  /\ UNCHANGED sync_lock
             ELSE /\ pc' = [pc EXCEPT ![t] = "open"]
                  /\ sync_lock' = TRUE
        /\ UNCHANGED <<market_data, fx_rates, session, clock>>
     \/ /\ pc[t] = "blocked"
        /\ ~sync_lock
        /\ sync_lock' = TRUE
        /\ pc' = [pc EXCEPT ![t] = "open"]
        /\ UNCHANGED <<market_data, fx_rates, session, clock, calls, run>>

Acquire(t) ==
  /\ UNCHANGED <<dbVars, cacheVars, readVars>>
  /\ pc[t] = "idle"
  /\ Len(calls) < MaxCalls
  /\ IF sync_lock
       THEN \* "Sync already in progress - skipping"
            /\ calls' = NewCall(TRUE, "skipped")
            /\ UNCHANGED <<sync_lock, pc, run>>
       ELSE /\ calls' = NewCall(FALSE, "running")
            /\ sync_lock' = TRUE
            /\ pc' = [pc EXCEPT ![t] = "open"]
            /\ run' = [run EXCEPT ![t] = Len(calls) + 1]
  /\ UNCHANGED <<market_data, fx_rates, session, clock>>

\* db = SessionLocal()
OpenSession(t) ==
  /\ UNCHANGED <<dbVars, cacheVars, readVars>>
  /\ pc[t] = "open"
  /\ session' = [session EXCEPT ![t] = EmptySession]
  /\ pc' = [pc EXCEPT ![t] = "query"]
  /\ UNCHANGED <<market_data, fx_rates, sync_lock, run, calls, clock>>

SetStatus(c, st) == [calls EXCEPT ![c].status = st]

\* db = SessionLocal() raises: the statement stands between the acquire and
\* the try block, so the exception leaves sync_market_data at once.
OpenSessionFails(t) ==
  /\ UNCHANGED <<dbVars, cacheVars, readVars>>
  /\ pc[t] = "open"
  /\ calls' = SetStatus(run[t], "failed")
  /\ pc' = [pc EXCEPT ![t] = "idle"]
  /\ run' = [run EXCEPT ![t] = 0]
  /\ UNCHANGED <<market_data, fx_rates, sync_lock, session, clock>>

\* The locals computed from the positions and accounts tables.
EquitySymbols == {p.symbol : p \in {q \in positions : q.category = "Equity"}}
PositionFxPairs ==
  {<<upper(p.currency), upper(a.base_currency)>> :
     <<p, a>> \in {<<q, b>> \in positions \X accounts :
                    /\ b.id = q.account_id
                    /\ upper(q.currency) # upper(b.base_currency)}}
AllFxPairs ==
  {<<a.base_currency, reporting_currency>> :
     a \in {b \in accounts : upper(b.base_currency) # upper(reporting_currency)}}
  \cup PositionFxPairs

Query(t) ==
  /\ UNCHANGED <<dbVars, cacheVars, readVars>>
  /\ pc[t] = "query"
  /\ session' = [session EXCEPT ![t].equity_symbols = EquitySymbols,
                                ![t].all_fx_pairs = AllFxPairs]
  /\ pc' = [pc EXCEPT ![t] = "prices"]
  /\ UNCHANGED <<market_data, fx_rates, sync_lock, run, calls, clock>>

\* yahoo_finance.fetch_prices: one entry per requested symbol, last_price None
\* when both endpoints failed for it.
FetchPricesResults(symbols) ==
  [symbols -> {Some(PriceQuote(clock)), None}]

FetchPrices(t) ==
  /\ UNCHANGED <<dbVars, cacheVars, readVars>>
  /\ pc[t] = "prices"
  /\ IF session[t].equity_symbols # {}
       THEN \E price_data \in FetchPricesResults(session[t].equity_symbols) :
              /\ session' = [session EXCEPT ![t].md = @ \cup
                   {[symbol |-> s, last_price |-> price_data[s],
                     timestamp |-> clock, call |-> run[t]] :
                      s \in DOMAIN price_data}]
              /\ clock' = clock + 1
       ELSE UNCHANGED <<session, clock>>
  /\ pc' = [pc EXCEPT ![t] = "fx"]
  /\ UNCHANGED <<market_data, fx_rates, sync_lock, run, calls>>

\* yahoo_finance.fetch_fx_rates_batch: keys are upper-cased "FROM/TO"; a pair
\* of equal currencies is 1.0; a pair whose request failed or returned no
\* quote is absent from the result.
FxQuote(t) == Norm(<<t + 3, 2>>)
FxKey(p) == PairKey(upper(p[1]), upper(p[2]))
IdentityKeys(pairs) == {FxKey(p) : p \in {q \in pairs : upper(q[1]) = upper(q[2])}}
FetchedKeys(pairs) == {FxKey(p) : p \in pairs} \ IdentityKeys(pairs)
FetchFxResults(pairs) ==
  {[k \in got \cup IdentityKeys(pairs) |->
      IF k \in IdentityKeys(pairs) THEN One ELSE FxQuote(clock)] :
     got \in SUBSET FetchedKeys(pairs)}

FetchFx(t) ==
  /\ UNCHANGED <<dbVars, cacheVars, readVars>>
  /\ pc[t] = "fx"
  /\ IF session[t].all_fx_pairs # {}
       THEN \E fx_results \in FetchFxResults(session[t].all_fx_pairs) :
              /\ session' = [session EXCEPT ![t].fx = @ \cup
                   {[pair |-> k, rate |-> fx_results[k],
                     timestamp |-> clock, call |-> run[t]] :
                      k \in DOMAIN fx_results}]
              /\ clock' = clock + 1
       ELSE UNCHANGED <<session, clock>>
  /\ pc' = [pc EXCEPT ![t] = "commit"]
  /\ UNCHANGED <<market_data, fx_rates, sync_lock, run, calls>>

\* db.commit()
Commit_upsert(t) ==
  /\ UNCHANGED <<dbVars, cacheVars, readVars>>
  /\ pc[t] = "commit"
  /\ market_data' = {r \in market_data : \A n \in session[t].md : n.symbol # r.symbol}
                       \cup session[t].md
  /\ fx_rates' = {r \in fx_rates : \A n \in session[t].fx : n.pair # r.pair}
                    \cup session[t].fx
  /\ session' = [session EXCEPT ![t].md = {}, ![t].fx = {}]
  /\ calls' = SetStatus(run[t], "committed")
  /\ pc' = [pc EXCEPT ![t] = "finally"]
  /\ UNCHANGED <<sync_lock, run, clock>>

Commit(t) ==
  /\ UNCHANGED <<dbVars, cacheVars, readVars>>
  /\ pc[t] = "commit"
  /\ market_data' = market_data \cup session[t].md
  /\ fx_rates' = fx_rates \cup session[t].fx
  /\ session' = [session EXCEPT ![t].md = {}, ![t].fx = {}]
  /\ calls' = SetStatus(run[t], "committed")
  /\ pc' = [pc EXCEPT ![t] = "finally"]
  /\ UNCHANGED <<sync_lock, run, clock>>

\* An exception inside the try block (a query, a row, the commit).
Raise(t) ==
  /\ UNCHANGED <<dbVars, cacheVars, readVars>>
  /\ pc[t] \in {"query", "prices", "fx", "commit"}
  /\ pc' = [pc EXCEPT ![t] = "except"]
  /\ UNCHANGED <<market_data, fx_rates, sync_lock, run, calls, session, clock>>

\* except Exception: db.rollback()
Rollback_keeps_rows(t) ==
  /\ UNCHANGED <<dbVars, cacheVars, readVars>>
  /\ pc[t] = "except"
  /\ market_data' = market_data \cup session[t].md
  /\ fx_rates' = fx_rates \cup session[t].fx
  /\ session' = [session EXCEPT ![t].md = {}, ![t].fx = {}]
  /\ calls' = SetStatus(run[t], "rolledback")
  /\ pc' = [pc EXCEPT ![t] = "finally"]
  /\ UNCHANGED <<sync_lock, run, clock>>

Rollback(t) ==
  /\ UNCHANGED <<dbVars, cacheVars, readVars>>
  /\ pc[t] = "except"
  /\ session' = [session EXCEPT ![t].md = {}, ![t].fx = {}]
  /\ calls' = SetStatus(run[t], "rolledback")
  /\ pc' = [pc EXCEPT ![t] = "finally"]
  /\ UNCHANGED <<market_data, fx_rates, sync_lock, run, clock>>

\* finally: db.close(); _sync_lock.release()
Finally(t) ==
  /\ UNCHANGED <<dbVars, cacheVars, readVars>>
  /\ pc[t] = "finally"
  /\ session' = [session EXCEPT ![t] = EmptySession]
  /\ sync_lock' = FALSE
  /\ pc' = [pc EXCEPT ![t] = "idle"]
  /\ run' = [run EXCEPT ![t] = 0]
  /\ UNCHANGED <<market_data, fx_rates, calls, clock>>

\* ---------------------------------------------------- latest row per key
\* The "max timestamp per key" subquery joined back to the table.
LatestMarketData ==
  {r \in market_data :
     \A q \in market_data : q.symbol = r.symbol => q.timestamp <= r.timestamp}
LatestFxRates ==
  {r \in fx_rates : \A q \in fx_rates : q.pair = r.pair => q.timestamp <= r.timestamp}

\* {r.symbol: r.last_price for r in rows if r.last_price is not None}
_get_latest_prices ==
  LET rows == {r \in LatestMarketData : r.last_price # None}
  IN  [s \in {r.symbol : r \in rows} |->
         (CHOOSE r \in rows : r.symbol = s).last_price[1]]

\* {r.pair: r.rate for r in rows}
_get_latest_fx_rates ==
  LET rows == LatestFxRates
  IN  [k \in {r.pair : r \in rows} |-> (CHOOSE r \in rows : r.pair = k).rate]

\* ------------------------------------------------------- currency resolver
\* get_fx_matrix.lookup: None when the pair cannot be resolved.
RECURSIVE lookup(_, _, _, _)
lookup_no_identity(rate_map, via, from_ccy, to_ccy) ==
  LET key == PairKey(from_ccy, to_ccy)
      inv == PairKey(to_ccy, from_ccy)
  IN  IF key \in DOMAIN rate_map /\ RPos(rate_map[key]) THEN rate_map[key]
      ELSE IF inv \in DOMAIN rate_map /\ RPos(rate_map[inv])
        THEN RInv(rate_map[inv])
      ELSE None

lookup_no_inversion(rate_map, via, from_ccy, to_ccy) ==
  IF from_ccy = to_ccy THEN One
  ELSE
    LET key == PairKey(from_ccy, to_ccy)
        inv == PairKey(to_ccy, from_ccy)
    IN  IF key \in DOMAIN rate_map /\ RPos(rate_map[key]) THEN rate_map[key]
        ELSE IF inv \in DOMAIN rate_map /\ RPos(rate_map[inv]) THEN rate_map[inv]
        ELSE IF from_ccy # via /\ to_ccy # via
          THEN LET a == lookup(rate_map, via, from_ccy, via)
                   b == lookup(rate_map, via, via, to_ccy)
               IN  IF a # None /\ b # None THEN RMul(a, b) ELSE None
        ELSE None

lookup_one_leg(rate_map, via, from_ccy, to_ccy) ==
  IF from_ccy = to_ccy THEN One
  ELSE
    LET key == PairKey(from_ccy, to_ccy)
        inv == PairKey(to_ccy, from_ccy)
    IN  IF key \in DOMAIN rate_map /\ RPos(rate_map[key]) THEN rate_map[key]
        ELSE IF inv \in DOMAIN rate_map /\ RPos(rate_map[inv])
          THEN RInv(rate_map[inv])
        ELSE IF from_ccy # via /\ to_ccy # via
          THEN LET a == lookup(rate_map, via, from_ccy, via)
                   b == lookup(rate_map, via, via, to_ccy)
               IN  IF a # None /\ b # None THEN a ELSE None
        ELSE None

lookup_no_triangulation(rate_map, via, from_ccy, to_ccy) ==
  IF from_ccy = to_ccy THEN One
  ELSE
    LET key == PairKey(from_ccy, to_ccy)
        inv == PairKey(to_ccy, from_ccy)
    IN  IF key \in DOMAIN rate_map /\ RPos(rate_map[key]) THEN rate_map[key]
        ELSE IF inv \in DOMAIN rate_map /\ RPos(rate_map[inv])
          THEN RInv(rate_map[inv])
        ELSE None

lookup(rate_map, via, from_ccy, to_ccy) ==
  IF from_ccy = to_ccy THEN One
  ELSE
    LET key == PairKey(from_ccy, to_ccy)
        inv == PairKey(to_ccy, from_ccy)
    IN  IF key \in DOMAIN rate_map /\ RPos(rate_map[key]) THEN rate_map[key]
        ELSE IF inv \in DOMAIN rate_map /\ RPos(rate_map[inv])
          THEN RInv(rate_map[inv])
        ELSE IF from_ccy # via /\ to_ccy # via
          THEN LET a == lookup(rate_map, via, from_ccy, via)
                   b == lookup(rate_map, via, via, to_ccy)
               IN  IF a # None /\ b # None THEN RMul(a, b) ELSE None
        ELSE None

\* The nesting of the calls of lookup: 0 when the call returns without
\* calling itself, else one more than the deeper of its two inner calls.
\* The count is followed for MaxNesting levels.
RECURSIVE lookup_nesting(_, _, _, _, _)
lookup_nesting_any_hop(rate_map, via, from_ccy, to_ccy, levels) ==
  IF levels = 0 \/ from_ccy = to_ccy THEN 0
  ELSE
    LET key == PairKey(from_ccy, to_ccy)
        inv == PairKey(to_ccy, from_ccy)
    IN  IF key \in DOMAIN rate_map /\ RPos(rate_map[key]) THEN 0
        ELSE IF inv \in DOMAIN rate_map /\ RPos(rate_map[inv]) THEN 0
        ELSE LET a == lookup_nesting(rate_map, via, from_ccy, via, levels - 1)
                 b == lookup_nesting(rate_map, via, via, to_ccy, levels - 1)
             IN  1 + (IF a >= b THEN a ELSE b)

lookup_nesting(rate_map, via, from_ccy, to_ccy, levels) ==
  IF levels = 0 \/ from_ccy = to_ccy THEN 0
  ELSE
    LET key == PairKey(from_ccy, to_ccy)
        inv == PairKey(to_ccy, from_ccy)
    IN  IF key \in DOMAIN rate_map /\ RPos(rate_map[key]) THEN 0
        ELSE IF inv \in DOMAIN rate_map /\ RPos(rate_map[inv]) THEN 0
        ELSE IF from_ccy # via /\ to_ccy # via
          THEN LET a == lookup_nesting(rate_map, via, from_ccy, via, levels - 1)
                   b == lookup_nesting(rate_map, via, via, to_ccy, levels - 1)
               IN  1 + (IF a >= b THEN a ELSE b)
        ELSE 0

\* Every distinct currency referenced in the portfolio, upper-cased.
MatrixCurrencies ==
  {upper(reporting_currency)}
    \cup {upper(a.base_currency) : a \in {b \in accounts : b.base_currency # ""}}
    \cup {upper(p.currency) : p \in {q \in positions : q.currency # ""}}

MaxOf(S) == CHOOSE x \in S : \A y \in S : y <= x

\* GET /fx-rates/matrix. "currencies" is the sorted list, kept as its set;
\* status is 500 when a cell computation raised.
get_fx_matrix ==
  LET rate_map == _get_latest_fx_rates
      via == upper(reporting_currency)
      matrix == [f \in MatrixCurrencies |->
                   [t \in MatrixCurrencies |-> lookup(rate_map, via, f, t)]]
      raised == \E f, t \in MatrixCurrencies : IsError(matrix[f][t])
  IN  IF raised
        THEN [status |-> 500, currencies |-> {}, matrix |-> <<>>,
              updated_at |-> None]
        ELSE [status |-> 200, currencies |-> MatrixCurrencies, matrix |-> matrix,
              updated_at |-> IF fx_rates = {} THEN None
                             ELSE Some(MaxOf({r.timestamp : r \in fx_rates}))]

\* summary._lookup_fx: inverse fallback, then 1.0.
_lookup_fx(fx, from_ccy, to_ccy) ==
  IF from_ccy = to_ccy THEN One
  ELSE
    LET pair == PairKey(from_ccy, to_ccy)
        pair_inv == PairKey(to_ccy, from_ccy)
    IN  IF pair \in DOMAIN fx THEN fx[pair]
        ELSE IF pair_inv \in DOMAIN fx /\ ~RZero(fx[pair_inv])
          THEN RInv(fx[pair_inv])
        ELSE One

\* ----------------------------------------------------- price history cache
\* date.isoformat(), as the two digits of the day; pd.to_datetime(..).dt.date
\* back; the TEXT comparison of SQLite on the stored strings.
isoformat(d) == <<d \div 10, d % 10>>
to_date(txt) == txt[1] * 10 + txt[2]
TextGE(a, b) == a[1] > b[1] \/ (a[1] = b[1] /\ a[2] >= b[2])

\* Outcome of the cache file I/O of one call: fine, _get_conn raises (path,
\* mkdir, connect, CREATE TABLE), or a statement / the commit raises.
IoOutcomes == {"ok", "conn_error", "exec_error"}

\* INSERT OR REPLACE under PRIMARY KEY (cache_key, trade_date)
InsertOnly(store, row) == store \cup {row}

InsertOrReplace(store, row) ==
  {r \in store : ~(r.cache_key = row.cache_key /\ r.trade_date = row.trade_date)}
    \cup {row}

executemany_head_only(store, rows) ==
  IF rows = <<>> THEN store ELSE InsertOrReplace(store, Head(rows))

\* conn.executemany(...): the rows in order
RECURSIVE executemany(_, _)
executemany(store, rows) ==
  IF rows = <<>> THEN store
  ELSE executemany(InsertOrReplace(store, Head(rows)), Tail(rows))

\* ORDER BY trade_date
RECURSIVE OrderByDate(_)
OrderByDate(rows) ==
  IF rows = {} THEN <<>>
  ELSE LET r == CHOOSE x \in rows : \A y \in rows : TextGE(y.trade_date, x.trade_date)
       IN  <<r>> \o OrderByDate(rows \ {r})

\* The try block of read_cache: [exc, df], df a sequence of <<date, Close>>.
read_cache_try(cache_key, start_date, io) ==
  IF io # "ok" THEN [exc |-> TRUE, df |-> <<>>]
  ELSE
    LET rows == OrderByDate({r \in price_cache :
                   /\ r.cache_key = cache_key
                   /\ TextGE(r.trade_date, isoformat(start_date))})
    IN  [exc |-> FALSE,
         df |-> [i \in 1..Len(rows) |-> <<to_date(rows[i].trade_date), rows[i].close>>]]

read_cache_no_except(cache_key, start_date, io) ==
  read_cache_try(cache_key, start_date, io)

\* read_cache: except Exception: return pd.DataFrame()
read_cache(cache_key, start_date, io) ==
  LET r == read_cache_try(cache_key, start_date, io)
  IN  IF r.exc THEN [exc |-> FALSE, df |-> <<>>] ELSE r

\* The try block of write_cache: [exc, store].  A failure leaves the
\* transaction uncommitted; it is rolled back when the connection is dropped.
write_cache_try(cache_key, df, io) ==
  IF io # "ok" THEN [exc |-> TRUE, store |-> price_cache]
  ELSE [exc |-> FALSE,
        store |-> executemany(price_cache,
                    [i \in 1..Len(df) |->
                       [cache_key |-> cache_key,
                        trade_date |-> isoformat(df[i][1]),
                        close |-> df[i][2]]])]

\* write_cache: returns at once on an empty frame; except Exception: pass
write_cache(cache_key, df, io) ==
  IF df = <<>> THEN [exc |-> FALSE, store |-> price_cache]
  ELSE LET w == write_cache_try(cache_key, df, io)
       IN  [exc |-> FALSE, store |-> w.store]

_fetch_or_cache_live_on_miss(cache_key, start_date, use_cache, io, source) ==
  LET r == read_cache(cache_key, start_date, io)
      w == IF source # <<>> THEN write_cache(cache_key, source, io)
           ELSE [exc |-> FALSE, store |-> price_cache]
  IN  IF use_cache /\ r.df # <<>>
        THEN [exc |-> r.exc, df |-> r.df, store |-> price_cache, ext |-> 0]
        ELSE [exc |-> w.exc, df |-> source, store |-> w.store, ext |-> 1]

\* _fetch_or_cache.  source is what fetch_history answers for (key, start)
\* when it is called; ext counts the calls of fetch_history.
_fetch_or_cache(cache_key, start_date, use_cache, io, source) ==
  IF use_cache
    THEN LET r == read_cache(cache_key, start_date, io)
         IN  [exc |-> r.exc, df |-> r.df, store |-> price_cache, ext |-> 0]
    ELSE LET df == source
             w == IF df # <<>> THEN write_cache(cache_key, df, io)
                  ELSE [exc |-> FALSE, store |-> price_cache]
         IN  [exc |-> w.exc, df |-> IF w.exc THEN <<>> ELSE df,
              store |-> w.store, ext |-> 1]

\* ------------------------------------------------------------ portfolios
\* The accounts and positions the requests run against.
Acct(id, ccy) == [id |-> id, base_currency |-> ccy]
Pos(id, acct, sym, cat, qty, cost, day, ccy) ==
  [id |-> id, account_id |-> acct, symbol |-> sym, category |-> cat,
   quantity |-> qty, cost_per_share |-> cost, date_added |-> day, currency |-> ccy,
   yield_rate |-> None]
\* A position with a yield_rate (a rational).
WithYield(p, yld) == [p EXCEPT !.yield_rate = Some(yld)]

FixtureAccounts == {Acct(1, "USD"), Acct(2, "CAD")}
FixturePositions ==
  {Pos(1, 1, "AAPL", "Equity", 2, 4, 10, "USD"),
   Pos(2, 2, "AAPL", "Equity", 1, 7, 9, "usd"),
   Pos(3, 2, "MSFT", "Equity", 3, 5, 9, "USD"),
   Pos(4, 2, "BOND", "GIC", 1, 100, 9, "CAD")}

\* sum(p.quantity for p in S), sum(p.quantity * p.cost_per_share for p in S)
RECURSIVE SumQuantity(_)
SumQuantity(S) ==
  IF S = {} THEN 0
  ELSE LET x == CHOOSE y \in S : TRUE IN x.quantity + SumQuantity(S \ {x})
RECURSIVE SumCost(_)
SumCost(S) ==
  IF S = {} THEN 0
  ELSE LET x == CHOOSE y \in S : TRUE
       IN  x.quantity * x.cost_per_share + SumCost(S \ {x})
MinOf(S) == CHOOSE x \in S : \A y \in S : x <= y

\* ----------------------------------------------------------- GET /history
\* yahoo_finance.fetch_history for a start date: daily closes in date order,
\* none before the start; empty when the request failed.
RECURSIVE SeriesUpTo(_, _)
SeriesUpTo(n, days) ==
  IF n = 0 THEN {<<>>}
  ELSE LET shorter == SeriesUpTo(n - 1, days)
       IN  shorter \cup
           {Append(q, <<d, c>>) : q \in shorter, d \in days, c \in CloseVals}
InDateOrder(q) == \A i \in 1..(Len(q) - 1) : q[i][1] <= q[i + 1][1]
FetchHistoryResults(start_date) ==
  {q \in SeriesUpTo(MaxPoints, {d \in Dates : d >= start_date}) : InDateOrder(q)}

\* get_history: [status, points, store, ext]; a point is
\* [date, close_price, pnl, mtm].  500 is the unhandled ZeroDivisionError.
get_history(symbol, account_id, use_cache, io, source) ==
  LET matching == {p \in positions :
                     /\ p.symbol = symbol
                     /\ (account_id # None => p.account_id = account_id[1])}
      equity_positions == {p \in matching : p.category = "Equity"}
      earliest_date == MinOf({p.date_added : p \in equity_positions})
      total_quantity == SumQuantity(equity_positions)
      total_cost == SumCost(equity_positions)
      f == _fetch_or_cache(symbol, earliest_date, use_cache, io, source)
      fail(code) == [status |-> code, points |-> <<>>, store |-> price_cache, ext |-> 0]
  IN  IF matching = {} THEN fail(404)
      ELSE IF equity_positions = {} THEN fail(422)
      ELSE IF total_quantity = 0 THEN fail(500)
      ELSE IF f.exc THEN [status |-> 500, points |-> <<>>, store |-> f.store, ext |-> f.ext]
      ELSE IF f.df = <<>>
        THEN [status |-> IF use_cache THEN 200 ELSE 503, points |-> <<>>,
              store |-> f.store, ext |-> f.ext]
      ELSE [status |-> 200,
            \* (close - avg_cost) * total_quantity, avg_cost = total_cost / total_quantity
            points |-> [i \in 1..Len(f.df) |->
                          [date |-> f.df[i][1], close_price |-> f.df[i][2],
                           pnl |-> f.df[i][2] * total_quantity - total_cost,
                           mtm |-> f.df[i][2] * total_quantity]],
            store |-> f.store, ext |-> f.ext]

\* History requests, one at a time: the call, the run against the cache file,
\* the return to the caller.
HistorySymbols == {"AAPL", "BOND", "TSLA"}
NoRequest == [op |-> "none"]
NoResult == [status |-> 0]

FetchOrCacheCall ==
  /\ UNCHANGED <<dbVars, syncVars, readVars>>
  /\ cpc = "idle"
  /\ \E key \in CacheKeys, start \in Dates, use_cache \in BOOLEAN :
       \E source \in FetchHistoryResults(start) :
         creq' = [op |-> "_fetch_or_cache", key |-> key, start |-> start,
                  use_cache |-> use_cache, account_id |-> None, source |-> source]
  /\ cpc' = "running"
  /\ UNCHANGED <<price_cache, cres>>

FetchOrCacheRun ==
  /\ UNCHANGED <<dbVars, syncVars, readVars>>
  /\ cpc = "running"
  /\ creq.op = "_fetch_or_cache"
  /\ \E io \in IoOutcomes :
       LET f == _fetch_or_cache(creq.key, creq.start, creq.use_cache, io, creq.source)
       IN  /\ price_cache' = f.store
           /\ cres' = [status |-> IF f.exc THEN 500 ELSE 200, df |-> f.df,
                       ext |-> f.ext, io |-> io, before |-> price_cache]
  /\ cpc' = "returned"
  /\ UNCHANGED creq

EquityStart(symbol, account_id) ==
  LET eq == {p \in positions :
               /\ p.symbol = symbol
               /\ p.category = "Equity"
               /\ (account_id # None => p.account_id = account_id[1])}
  IN  IF eq = {} THEN MinOf(Dates) ELSE MinOf({p.date_added : p \in eq})

GetHistoryCall ==
  /\ UNCHANGED <<dbVars, syncVars, readVars>>
  /\ cpc = "idle"
  /\ \E symbol \in HistorySymbols, account_id \in {None, Some(1)},
        use_cache \in BOOLEAN :
       \E source \in FetchHistoryResults(EquityStart(symbol, account_id)) :
         creq' = [op |-> "get_history", key |-> symbol,
                  start |-> EquityStart(symbol, account_id),
                  use_cache |-> use_cache, account_id |-> account_id,
                  source |-> source]
  /\ cpc' = "running"
  /\ UNCHANGED <<price_cache, cres>>

GetHistoryRun ==
  /\ UNCHANGED <<dbVars, syncVars, readVars>>
  /\ cpc = "running"
  /\ creq.op = "get_history"
  /\ \E io \in IoOutcomes :
       LET h == get_history(creq.key, creq.account_id, creq.use_cache, io, creq.source)
       IN  /\ price_cache' = h.store
           /\ cres' = [status |-> h.status, df |-> h.points, ext |-> h.ext,
                       io |-> io, before |-> price_cache]
  /\ cpc' = "returned"
  /\ UNCHANGED creq

HistoryReturn ==
  /\ UNCHANGED <<dbVars, syncVars, readVars>>
  /\ cpc = "returned"
  /\ cpc' = "idle"
  /\ creq' = NoRequest
  /\ cres' = NoResult
  /\ UNCHANGED price_cache


\* ------------------------------------------------- historical aggregation
\* The price source as a function of the key; no key, no data.
NoHistory == <<>>

\* history._get_fx_rates: the same latest-row query as the summary's.
_get_fx_rates ==
  LET rows == LatestFxRates
  IN  [k \in {r.pair : r \in rows} |-> (CHOOSE r \in rows : r.pair = k).rate]

\* history._lookup_fx
_lookup_fx_history(fx, from_ccy, to_ccy) ==
  IF from_ccy = to_ccy THEN One
  ELSE
    LET pair == PairKey(from_ccy, to_ccy)
        inv == PairKey(to_ccy, from_ccy)
    IN  IF pair \in DOMAIN fx THEN fx[pair]
        ELSE IF inv \in DOMAIN fx /\ ~RZero(fx[inv]) THEN RInv(fx[inv])
        ELSE One

\* f"{from_ccy}{to_ccy}=X"
FxTicker(from_ccy, to_ccy) == from_ccy \o to_ccy \o "=X"

\* fetch_history(key, start_date): the rows of the source from start_date on.
fetch_history(source, key, start_date) ==
  IF key \in DOMAIN source
    THEN SelectSeq(source[key], LAMBDA pt : pt[1] >= start_date)
    ELSE <<>>

\* What one _fetch_or_cache(key, start_date, use_cache) of a request returns.
\* The cache calls of one request share the I/O outcome io; a live request
\* never reads the cache, and a write under one key leaves other keys alone.
FetchedSeries(key, start_date, use_cache, io, source) ==
  _fetch_or_cache(key, start_date, use_cache, io,
                  fetch_history(source, key, start_date)).df

\* The rows of the cache after the live fetches of the keys in fetched.
StoreAfter(fetched, start_of, use_cache, io, source) ==
  IF use_cache THEN price_cache
  ELSE {r \in price_cache : r.cache_key \notin fetched}
         \cup UNION {{r \in _fetch_or_cache(k, start_of[k], FALSE, io,
                                  fetch_history(source, k, start_of[k])).store :
                        r.cache_key = k} : k \in fetched}

\* dict(zip(df.index, df["Close"]))
SeriesDict(df) ==
  [d \in {df[i][1] : i \in 1..Len(df)} |->
     (CHOOSE i \in 1..Len(df) : df[i][1] = d /\ \A j \in (i + 1)..Len(df) : df[j][1] # d)]
SeriesClose(df, d) == df[SeriesDict(df)[d]][2]
SeriesDates(df) == {df[i][1] : i \in 1..Len(df)}

\* _compute_equity_aggregate._fx_on_date; hist_fx: pair -> series
_fx_on_date_no_inverse(hist_fx, latest_fx, from_ccy, to_ccy, dt) ==
  IF from_ccy = to_ccy THEN One
  ELSE
    LET key == PairKey(from_ccy, to_ccy)
    IN  IF /\ key \in DOMAIN hist_fx
           /\ dt \in SeriesDates(hist_fx[key])
           /\ SeriesClose(hist_fx[key], dt) > 0
          THEN RInt(SeriesClose(hist_fx[key], dt))
        ELSE _lookup_fx_history(latest_fx, from_ccy, to_ccy)

_fx_on_date_zero_when_unresolved(hist_fx, latest_fx, from_ccy, to_ccy, dt) ==
  IF from_ccy = to_ccy THEN One
  ELSE
    LET key == PairKey(from_ccy, to_ccy)
        inv == PairKey(to_ccy, from_ccy)
    IN  IF /\ key \in DOMAIN hist_fx
           /\ dt \in SeriesDates(hist_fx[key])
           /\ SeriesClose(hist_fx[key], dt) > 0
          THEN RInt(SeriesClose(hist_fx[key], dt))
        ELSE IF /\ inv \in DOMAIN hist_fx
                /\ dt \in SeriesDates(hist_fx[inv])
                /\ SeriesClose(hist_fx[inv], dt) > 0
          THEN RInv(RInt(SeriesClose(hist_fx[inv], dt)))
        ELSE IF key \in DOMAIN latest_fx \/ inv \in DOMAIN latest_fx
          THEN _lookup_fx_history(latest_fx, from_ccy, to_ccy)
        ELSE RInt(0)

_fx_on_date(hist_fx, latest_fx, from_ccy, to_ccy, dt) ==
  IF from_ccy = to_ccy THEN One
  ELSE
    LET key == PairKey(from_ccy, to_ccy)
        inv == PairKey(to_ccy, from_ccy)
    IN  IF /\ key \in DOMAIN hist_fx
           /\ dt \in SeriesDates(hist_fx[key])
           /\ SeriesClose(hist_fx[key], dt) > 0
          THEN RInt(SeriesClose(hist_fx[key], dt))
        ELSE IF /\ inv \in DOMAIN hist_fx
                /\ dt \in SeriesDates(hist_fx[inv])
                /\ SeriesClose(hist_fx[inv], dt) > 0
          THEN RInv(RInt(SeriesClose(hist_fx[inv], dt)))
        ELSE _lookup_fx_history(latest_fx, from_ccy, to_ccy)

\* sym_positions[0]: the rows come back in primary-key order.
FirstOf(S) == CHOOSE p \in S : \A q \in S : p.id <= q.id
\* acct.base_currency.upper() if acct else reporting_currency
AccountCurrency(account_id, rep) ==
  IF \E a \in accounts : a.id = account_id
    THEN upper((CHOOSE a \in accounts : a.id = account_id).base_currency)
    ELSE rep

\* df.reindex(all_dates).ffill().dropna(subset=["Close"]): date -> Close
Aligned_no_ffill(df, all_dates) ==
  [d \in all_dates \cap SeriesDates(df) |-> SeriesClose(df, d)]

Aligned(df, all_dates) ==
  [d \in {x \in all_dates : \E y \in SeriesDates(df) : y <= x} |->
     SeriesClose(df, MaxOf({y \in SeriesDates(df) : y <= d}))]

\* _compute_equity_aggregate, in its two halves: the fetches, then the
\* arithmetic over the fetched frames.
SymGroup(equity_positions, s) == {p \in equity_positions : p.symbol = s}
StockCcy(equity_positions, s) == upper(FirstOf(SymGroup(equity_positions, s)).currency)
AcctCcy(equity_positions, s, rep) ==
  AccountCurrency(FirstOf(SymGroup(equity_positions, s)).account_id, rep)
fx_pairs_needed(equity_positions, rep) ==
  LET symbols == {p.symbol : p \in equity_positions}
  IN  {<<StockCcy(equity_positions, s), AcctCcy(equity_positions, s, rep)>> :
         s \in {x \in symbols :
                  StockCcy(equity_positions, x) # AcctCcy(equity_positions, x, rep)}}
        \cup {<<AcctCcy(equity_positions, s, rep), rep>> :
                s \in {x \in symbols : AcctCcy(equity_positions, x, rep) # rep}}

\* The _fetch_or_cache calls of _compute_equity_aggregate: one per needed
\* currency pair from overall_earliest, one per symbol from the earliest
\* date_added of its group.  frames: the returned frame of each key.
FetchFrames(equity_positions, rep, use_cache, io, source) ==
  LET symbols == {p.symbol : p \in equity_positions}
      overall_earliest == MinOf({p.date_added : p \in equity_positions})
      tickers == {FxTicker(pr[1], pr[2]) : pr \in fx_pairs_needed(equity_positions, rep)}
      start_of == [k \in symbols \cup tickers |->
                     IF k \in symbols
                       THEN MinOf({p.date_added : p \in SymGroup(equity_positions, k)})
                       ELSE overall_earliest]
  IN  IF equity_positions = {}
        THEN [frames |-> {}, store |-> price_cache, ext |-> 0]
        ELSE [frames |-> {[key |-> k,
                           df |-> FetchedSeries(k, start_of[k], use_cache, io, source)] :
                            k \in symbols \cup tickers},
              store |-> StoreAfter(symbols \cup tickers, start_of, use_cache, io, source),
              ext |-> IF use_cache THEN 0 ELSE Cardinality(symbols \cup tickers)]
FrameOf(frames, k) == (CHOOSE r \in frames : r.key = k).df

\* The rest of _compute_equity_aggregate.  Besides (combined, all_dates) the
\* record keeps the locals the result is built from: hist_fx, the non-empty
\* frames sym_dfs, the aligned frames and each symbol's addends.
_compute_equity_aggregate(equity_positions, frames, latest_fx, rep) ==
  LET symbols == {p.symbol : p \in equity_positions}
      hist_pairs == {pr \in fx_pairs_needed(equity_positions, rep) :
                       FrameOf(frames, FxTicker(pr[1], pr[2])) # <<>>}
      hist_fx == [k \in {PairKey(pr[1], pr[2]) : pr \in hist_pairs} |->
                    FrameOf(frames, FxTicker(
                      (CHOOSE pr \in hist_pairs : PairKey(pr[1], pr[2]) = k)[1],
                      (CHOOSE pr \in hist_pairs : PairKey(pr[1], pr[2]) = k)[2]))]
      sym_dfs == {s \in symbols : FrameOf(frames, s) # <<>>}
      all_dates == UNION {SeriesDates(FrameOf(frames, s)) : s \in sym_dfs}
      total_qty(s) == SumQuantity(SymGroup(equity_positions, s))
      avg_cost(s) == RDiv(RInt(SumCost(SymGroup(equity_positions, s))),
                          RInt(total_qty(s)))
      aligned == [s \in sym_dfs |-> Aligned(FrameOf(frames, s), all_dates)]
      fx(s, d) ==
        RMul(_fx_on_date(hist_fx, latest_fx, StockCcy(equity_positions, s),
                         AcctCcy(equity_positions, s, rep), d),
             _fx_on_date(hist_fx, latest_fx, AcctCcy(equity_positions, s, rep), rep, d))
      contrib ==
        [s \in sym_dfs |->
           [d \in DOMAIN aligned[s] |->
              [mtm |-> RMul(RMul(RInt(aligned[s][d]), RInt(total_qty(s))), fx(s, d)),
               pnl |-> RMul(RMul(RSub(RInt(aligned[s][d]), avg_cost(s)),
                                 RInt(total_qty(s))), fx(s, d))]]]
      present(d) == {s \in sym_dfs : d \in DOMAIN aligned[s]}
      combined ==
        [d \in all_dates |->
           [mtm |-> RSum([s \in present(d) |-> contrib[s][d].mtm]),
            pnl |-> RSum([s \in present(d) |-> contrib[s][d].pnl]),
            cash_gic |-> RInt(0)]]
  IN  [exc |-> \E s \in sym_dfs : total_qty(s) = 0,
       combined |-> combined, all_dates |-> all_dates, hist_fx |-> hist_fx,
       sym_dfs |-> [s \in sym_dfs |-> FrameOf(frames, s)], aligned |-> aligned,
       contrib |-> contrib]

\* The Cash / GIC addend of one position on one date, before conversion:
\* [mtm_pos, pnl_pos].  days = (dt - pos.date_added).days
CashGicValue_compound_free(pos, dt) ==
  LET qty == RInt(pos.quantity)
      cost == RInt(pos.cost_per_share)
  IN  [mtm_pos |-> RMul(qty, cost), pnl_pos |-> RInt(0)]

CashGicValue(pos, dt) ==
  LET qty == RInt(pos.quantity)
      cost == RInt(pos.cost_per_share)
      yld == IF pos.yield_rate = None THEN RInt(0) ELSE pos.yield_rate[1]
      days == dt - pos.date_added
      spot == RMul(cost, RAdd(One, RDiv(RMul(yld, RInt(days)), RInt(365))))
  IN  IF pos.category = "Cash"
        THEN [mtm_pos |-> RMul(qty, cost), pnl_pos |-> RInt(0)]
        ELSE [mtm_pos |-> RMul(spot, qty), pnl_pos |-> RMul(RSub(spot, cost), qty)]

\* sorted(combined.items()) as a sequence of dates
RECURSIVE SortedDates(_)
SortedDates(D) ==
  IF D = {} THEN <<>> ELSE <<MinOf(D)>> \o SortedDates(D \ {MinOf(D)})

NoTrace == [hist_fx |-> <<>>, sym_dfs |-> <<>>, aligned |-> <<>>, contrib |-> <<>>,
            all_dates |-> {}, equity |-> <<>>]

\* GET /history/aggregate: [status, points, store, ext, trace]; a point is
\* [date, pnl, mtm, cash_gic]; trace keeps the locals of the equity pass and
\* its result before the Cash/GIC pass.  fetched and agg are the results of
\* the two halves of _compute_equity_aggregate for the request's positions.
EquityOf(account_id) ==
  {p \in positions :
     p.category = "Equity" /\ (account_id # None => p.account_id = account_id[1])}

get_aggregate_history_empty_on_live_miss(account_id, use_cache, latest_fx, fetched, agg) ==
  LET rep == upper(reporting_currency)
      non_eq == {p \in positions :
                   /\ p.category \in {"Cash", "GIC"}
                   /\ (account_id # None => p.account_id = account_id[1])}
      fx(pos) ==
        RMul(_lookup_fx_history(latest_fx, upper(pos.currency),
                                AccountCurrency(pos.account_id, rep)),
             _lookup_fx_history(latest_fx, AccountCurrency(pos.account_id, rep), rep))
      open(d) == {pos \in non_eq : ~(d < pos.date_added)}
      add_mtm(d) == RSum([i \in {pos.id : pos \in open(d)} |->
                  RMul(CashGicValue(CHOOSE pos \in open(d) : pos.id = i, d).mtm_pos,
                       fx(CHOOSE pos \in open(d) : pos.id = i))])
      add_pnl(d) == RSum([i \in {pos.id : pos \in open(d)} |->
                  RMul(CashGicValue(CHOOSE pos \in open(d) : pos.id = i, d).pnl_pos,
                       fx(CHOOSE pos \in open(d) : pos.id = i))])
      dates == SortedDates(agg.all_dates)
      points == [i \in 1..Len(dates) |->
                   [date |-> dates[i],
                    pnl |-> RAdd(agg.combined[dates[i]].pnl, add_pnl(dates[i])),
                    mtm |-> RAdd(agg.combined[dates[i]].mtm, add_mtm(dates[i])),
                    cash_gic |-> add_mtm(dates[i])]]
      trace == [hist_fx |-> agg.hist_fx, sym_dfs |-> agg.sym_dfs,
                aligned |-> agg.aligned, contrib |-> agg.contrib,
                all_dates |-> agg.all_dates, equity |-> agg.combined]
  IN  IF EquityOf(account_id) = {}
        THEN [status |-> 404, points |-> <<>>, store |-> price_cache, ext |-> 0,
              trace |-> NoTrace]
      ELSE IF agg.exc
        THEN [status |-> 500, points |-> <<>>, store |-> fetched.store,
              ext |-> fetched.ext, trace |-> NoTrace]
      ELSE IF agg.all_dates = {}
        THEN [status |-> 200, points |-> <<>>,
              store |-> fetched.store, ext |-> fetched.ext, trace |-> trace]
      ELSE [status |-> 200, points |-> points, store |-> fetched.store,
            ext |-> fetched.ext, trace |-> trace]

get_aggregate_history(account_id, use_cache, latest_fx, fetched, agg) ==
  LET rep == upper(reporting_currency)
      non_eq == {p \in positions :
                   /\ p.category \in {"Cash", "GIC"}
                   /\ (account_id # None => p.account_id = account_id[1])}
      fx(pos) ==
        RMul(_lookup_fx_history(latest_fx, upper(pos.currency),
                                AccountCurrency(pos.account_id, rep)),
             _lookup_fx_history(latest_fx, AccountCurrency(pos.account_id, rep), rep))
      open(d) == {pos \in non_eq : ~(d < pos.date_added)}
      add_mtm(d) == RSum([i \in {pos.id : pos \in open(d)} |->
                  RMul(CashGicValue(CHOOSE pos \in open(d) : pos.id = i, d).mtm_pos,
                       fx(CHOOSE pos \in open(d) : pos.id = i))])
      add_pnl(d) == RSum([i \in {pos.id : pos \in open(d)} |->
                  RMul(CashGicValue(CHOOSE pos \in open(d) : pos.id = i, d).pnl_pos,
                       fx(CHOOSE pos \in open(d) : pos.id = i))])
      dates == SortedDates(agg.all_dates)
      points == [i \in 1..Len(dates) |->
                   [date |-> dates[i],
                    pnl |-> RAdd(agg.combined[dates[i]].pnl, add_pnl(dates[i])),
                    mtm |-> RAdd(agg.combined[dates[i]].mtm, add_mtm(dates[i])),
                    cash_gic |-> add_mtm(dates[i])]]
      trace == [hist_fx |-> agg.hist_fx, sym_dfs |-> agg.sym_dfs,
                aligned |-> agg.aligned, contrib |-> agg.contrib,
                all_dates |-> agg.all_dates, equity |-> agg.combined]
  IN  IF EquityOf(account_id) = {}
        THEN [status |-> 404, points |-> <<>>, store |-> price_cache, ext |-> 0,
              trace |-> NoTrace]
      ELSE IF agg.exc
        THEN [status |-> 500, points |-> <<>>, store |-> fetched.store,
              ext |-> fetched.ext, trace |-> NoTrace]
      ELSE IF agg.all_dates = {}
        THEN [status |-> IF use_cache THEN 200 ELSE 503, points |-> <<>>,
              store |-> fetched.store, ext |-> fetched.ext, trace |-> trace]
      ELSE [status |-> 200, points |-> points, store |-> fetched.store,
            ext |-> fetched.ext, trace |-> trace]

\* The aggregate request, through the same call / run / return steps.
AggregateCall ==
  /\ UNCHANGED <<dbVars, syncVars, readVars>>
  /\ cpc = "idle"
  /\ \E account_id \in {None, Some(2)}, use_cache \in BOOLEAN :
       creq' = [op |-> "get_aggregate_history", key |-> "", start |-> 0,
                use_cache |-> use_cache, account_id |-> account_id,
                source |-> <<>>]
  /\ cpc' = "running"
  /\ UNCHANGED <<price_cache, cres>>

AggregateRun ==
  /\ UNCHANGED <<dbVars, syncVars, readVars>>
  /\ cpc = "running"
  /\ creq.op = "get_aggregate_history"
  /\ \E io \in IoOutcomes, latest_fx \in {_get_fx_rates} :
       \E fetched \in {FetchFrames(EquityOf(creq.account_id),
                                   upper(reporting_currency), creq.use_cache, io,
                                   history_source)} :
         \E agg \in {_compute_equity_aggregate(EquityOf(creq.account_id),
                       fetched.frames, latest_fx, upper(reporting_currency))} :
           \E h \in {get_aggregate_history(creq.account_id, creq.use_cache,
                                          latest_fx, fetched, agg)} :
             /\ price_cache' = h.store
             /\ cres' = [status |-> h.status, df |-> h.points, ext |-> h.ext,
                         io |-> io, before |-> price_cache, trace |-> h.trace]
  /\ cpc' = "returned"
  /\ UNCHANGED creq

\* ------------------------------------------------------------ read requests
\* The refresh calls that are between acquire and release.
InFlight == {run[t] : t \in {u \in Threads : pc[u] \in InSection}}

ReadKinds == {"summary", "fx_matrix", "history_cache"}
NoRead == [kind |-> "none", during |-> {}, overlapped |-> FALSE, status |-> 0]

\* get_summary up to the two-hop FX of each position: the latest prices and
\* rates it reads, and the legs it looks up.
SnapshotLegs ==
  LET fx == _get_latest_fx_rates
      acct(p) == CHOOSE a \in accounts : a.id = p.account_id
  IN  [status |-> 200,
       prices |-> _get_latest_prices,
       legs |-> {[id |-> p.id,
                  fx_stock_to_account |->
                    _lookup_fx(fx, upper(p.currency), upper(acct(p).base_currency)),
                  fx_account_to_reporting |->
                    _lookup_fx(fx, upper(acct(p).base_currency),
                               upper(reporting_currency))] : p \in positions}]

\* The status of the response of a read of the given kind.
ReadStatus(kind) ==
  CASE kind = "summary" -> SnapshotLegs.status
    [] kind = "fx_matrix" -> get_fx_matrix.status
    [] kind = "history_cache" ->
         IF read_cache("AAPL", MinOf(Dates), "ok").exc THEN 500 ELSE 200

StartRead(r) ==
  /\ UNCHANGED <<dbVars, syncVars, cacheVars, response>>
  /\ rpc[r] = "idle"
  /\ \E kind \in ReadKinds :
       rinfo' = [rinfo EXCEPT ![r] = [kind |-> kind, during |-> InFlight,
                                      overlapped |-> FALSE, status |-> 0]]
  /\ rpc' = [rpc EXCEPT ![r] = "reading"]

FinishReadWaitingForLock(r) ==
  /\ UNCHANGED <<dbVars, syncVars, cacheVars, response>>
  /\ rpc[r] = "reading"
  /\ ~sync_lock
  /\ rinfo' = [rinfo EXCEPT ![r].during = {},
                            ![r].overlapped = FALSE,
                            ![r].status = ReadStatus(rinfo[r].kind)]
  /\ rpc' = [rpc EXCEPT ![r] = "idle"]

\* The queries of the read and its response; _sync_lock is not involved.
FinishRead(r) ==
  /\ UNCHANGED <<dbVars, syncVars, cacheVars, response>>
  /\ rpc[r] = "reading"
  /\ rinfo' = [rinfo EXCEPT
                 ![r].during = {},
                 ![r].overlapped = (rinfo[r].during # {} /\ rinfo[r].during \subseteq InFlight),
                 ![r].status = ReadStatus(rinfo[r].kind)]
  /\ rpc' = [rpc EXCEPT ![r] = "idle"]

\* ------------------------------------------------------- currency reads
NoResponse == [kind |-> "none", body |-> <<>>]

\* GET /fx-rates/matrix
FxMatrixRequest ==
  /\ response' = [kind |-> "fx_matrix", body |-> get_fx_matrix]
  /\ UNCHANGED <<dbVars, syncVars, cacheVars, rpc, rinfo>>

\* GET /summary, up to the FX legs of the enriched positions
SummaryRequest ==
  /\ response' = [kind |-> "summary", body |-> SnapshotLegs]
  /\ UNCHANGED <<dbVars, syncVars, cacheVars, rpc, rinfo>>

\* ------------------------------------------------------ portfolio summary
\* _enrich_positions: one record per position; numbers are rationals.
_enrich_positions_one_hop(ps, prices, fx, rep) ==
  {LET acct_currency == upper((CHOOSE a \in accounts : a.id = p.account_id).base_currency)
       stock_currency == upper(p.currency)
       spot == IF p.category \in {"GIC", "Cash", "Dividend"} THEN RInt(p.cost_per_share)
               ELSE IF p.symbol \in DOMAIN prices THEN RInt(prices[p.symbol])
               ELSE RInt(p.cost_per_share)
       fx_stock_to_account == _lookup_fx(fx, stock_currency, acct_currency)
       fx_account_to_reporting == _lookup_fx(fx, acct_currency, upper(rep))
       mtm_account == RMul(RMul(spot, RInt(p.quantity)), fx_stock_to_account)
       pnl_account == RMul(RMul(RSub(spot, RInt(p.cost_per_share)), RInt(p.quantity)),
                           fx_stock_to_account)
   IN  [id |-> p.id, symbol |-> p.symbol, category |-> p.category,
        account_id |-> p.account_id, account_currency |-> acct_currency,
        quantity |-> p.quantity, cost_per_share |-> p.cost_per_share,
        stock_currency |-> stock_currency, spot_price |-> spot,
        fx_stock_to_account |-> fx_stock_to_account,
        fx_account_to_reporting |-> fx_account_to_reporting,
        mtm_account |-> mtm_account, pnl_account |-> pnl_account,
        mtm_reporting |-> mtm_account, pnl_reporting |-> pnl_account,
        proportion |-> RInt(0)] : p \in ps}

_enrich_positions(ps, prices, fx, rep) ==
  {LET acct_currency == upper((CHOOSE a \in accounts : a.id = p.account_id).base_currency)
       stock_currency == upper(p.currency)
       spot == IF p.category \in {"GIC", "Cash", "Dividend"} THEN RInt(p.cost_per_share)
               ELSE IF p.symbol \in DOMAIN prices THEN RInt(prices[p.symbol])
               ELSE RInt(p.cost_per_share)
       fx_stock_to_account == _lookup_fx(fx, stock_currency, acct_currency)
       fx_account_to_reporting == _lookup_fx(fx, acct_currency, upper(rep))
       mtm_account == RMul(RMul(spot, RInt(p.quantity)), fx_stock_to_account)
       pnl_account == RMul(RMul(RSub(spot, RInt(p.cost_per_share)), RInt(p.quantity)),
                           fx_stock_to_account)
   IN  [id |-> p.id, symbol |-> p.symbol, category |-> p.category,
        account_id |-> p.account_id, account_currency |-> acct_currency,
        quantity |-> p.quantity, cost_per_share |-> p.cost_per_share,
        stock_currency |-> stock_currency, spot_price |-> spot,
        fx_stock_to_account |-> fx_stock_to_account,
        fx_account_to_reporting |-> fx_account_to_reporting,
        mtm_account |-> mtm_account, pnl_account |-> pnl_account,
        mtm_reporting |-> RMul(mtm_account, fx_account_to_reporting),
        pnl_reporting |-> RMul(pnl_account, fx_account_to_reporting),
        proportion |-> RInt(0)] : p \in ps}

\* sum(e.<field> for e in S), by position id
SumMtm(S) == RSum([i \in {e.id : e \in S} |-> (CHOOSE e \in S : e.id = i).mtm_reporting])
SumPnl(S) == RSum([i \in {e.id : e \in S} |-> (CHOOSE e \in S : e.id = i).pnl_reporting])

AccountName(id) == IF id = 1 THEN "Brokerage" ELSE "Savings"
GroupBys == {"category", "account", "symbol", "cash_gic"}
GroupKey(group_by, e) ==
  CASE group_by = "category" -> e.category
    [] group_by = "account" -> AccountName(e.account_id)
    [] group_by = "symbol" -> e.symbol
    [] OTHER -> IF e.category \in {"GIC", "Cash"} THEN "GIC/Cash" ELSE "Other"

\* GET /summary over the enriched positions.  x / total * 100.0
Percent(x, total) == RMul(RDiv(x, total), RInt(100))
get_summary(group_by, enriched) ==
  LET total_mtm == IF RZero(SumMtm(enriched)) THEN One ELSE SumMtm(enriched)
      total_pnl == SumPnl(enriched)
      members(k) == {e \in enriched : GroupKey(group_by, e) = k}
  IN  [status |-> 200,
       positions |-> {[e EXCEPT !.proportion =
                         IF ~RZero(total_mtm) THEN Percent(e.mtm_reporting, total_mtm)
                         ELSE RInt(0)] : e \in enriched},
       groups |-> {[group_key |-> k,
                    total_mtm_reporting |-> SumMtm(members(k)),
                    total_pnl_reporting |-> SumPnl(members(k)),
                    proportion |-> IF ~RZero(total_mtm)
                                     THEN Percent(SumMtm(members(k)), total_mtm)
                                     ELSE RInt(0)] :
                     k \in {GroupKey(group_by, e) : e \in enriched}},
       total_mtm_reporting |-> total_mtm,
       total_pnl_reporting |-> total_pnl,
       reporting_currency |-> reporting_currency]

GetSummary ==
  /\ \E group_by \in GroupBys :
       \E enriched \in {_enrich_positions(positions, _get_latest_prices,
                                          _get_latest_fx_rates, reporting_currency)} :
         response' = [kind |-> "get_summary", group_by |-> group_by,
                      body |-> get_summary(group_by, enriched)]
  /\ UNCHANGED <<dbVars, syncVars, cacheVars, rpc, rinfo>>

\* POST /ai/action/execute with action "record_cash": a Cash position at
\* cost 1.0 in the account's currency, its quantity negative for a withdrawal.
CashAmounts == {5}
NextId == IF positions = {} THEN 1 ELSE MaxOf({p.id : p \in positions}) + 1
RecordCash ==
  /\ Cardinality({p \in positions : p.symbol = "CASH" /\ p.cost_per_share = 1}) < MaxCash
  /\ \E account_id \in {1, 2, 3}, amount \in CashAmounts, type \in {"deposit", "withdraw"} :
       IF \E a \in accounts : a.id = account_id
         THEN /\ positions' = positions \cup
                   {Pos(NextId, account_id, "CASH", "Cash",
                        IF type = "withdraw" THEN -amount ELSE amount, 1, clock,
                        (CHOOSE a \in accounts : a.id = account_id).base_currency)}
              /\ response' = [kind |-> "record_cash", body |-> [success |-> TRUE]]
         ELSE /\ UNCHANGED positions
              /\ response' = [kind |-> "record_cash", body |-> [success |-> FALSE]]
  /\ UNCHANGED <<accounts, reporting_currency, history_source, syncVars, cacheVars,
                 rpc, rinfo>>

\* ------------------------------------------------- accounts and positions
\* The REST routes of routers/accounts.py and routers/positions.py and the
\* assistant's actions of routers/ai.py.  The database is opened without
\* PRAGMA foreign_keys, so SQLite does not check positions.account_id; the
\* NOT NULL columns are checked at commit.

\* Python truthiness of an optional rate: None and 0.0 are falsy.
Truthy(yield_rate) == yield_rate # None /\ ~RZero(yield_rate[1])

\* _validate_position: TRUE when it returns, FALSE when it raises 422.
_validate_position(payload_dict) ==
  IF payload_dict.category = "GIC" THEN Truthy(payload_dict.yield_rate)
  ELSE IF payload_dict.category = "Equity" THEN payload_dict.symbol # ""
  ELSE TRUE

\* INTEGER PRIMARY KEY: the largest id in the table plus one.
NextAccountId == IF accounts = {} THEN 1 ELSE MaxOf({a.id : a \in accounts}) + 1

\* A position row built from a payload.
PositionRow(id, d) ==
  [id |-> id, account_id |-> d.account_id, symbol |-> d.symbol,
   category |-> d.category, quantity |-> d.quantity,
   cost_per_share |-> d.cost_per_share, date_added |-> d.date_added,
   currency |-> d.currency, yield_rate |-> d.yield_rate]

\* PositionCreate: quantity > 0 and cost_per_share >= 0, else 422.
PositionCreateValid(payload) == payload.quantity > 0 /\ payload.cost_per_share >= 0

\* POST /positions: [status, positions]
create_position(payload) ==
  IF ~PositionCreateValid(payload) THEN [status |-> 422, positions |-> positions]
  ELSE IF ~\E a \in accounts : a.id = payload.account_id
    THEN [status |-> 404, positions |-> positions]
  ELSE IF ~_validate_position(payload) THEN [status |-> 422, positions |-> positions]
  ELSE [status |-> 201, positions |-> positions \cup {PositionRow(NextId, payload)}]

\* setattr(position, field, value) for every field of update_data
SetAttrs(row, update_data) ==
  [f \in DOMAIN row |-> IF f \in DOMAIN update_data THEN update_data[f] ELSE row[f]]

\* PUT /positions/{position_id}: update_data holds the fields that were sent.
update_position(position_id, update_data) ==
  IF ~\E q \in positions : q.id = position_id
    THEN [status |-> 404, positions |-> positions]
  ELSE
    LET position == CHOOSE q \in positions : q.id = position_id
        after == SetAttrs(position, update_data)
        merged == [category |-> after.category, symbol |-> after.symbol,
                   yield_rate |-> after.yield_rate]
    IN  IF ~_validate_position(merged) THEN [status |-> 422, positions |-> positions]
        ELSE [status |-> 200, positions |-> (positions \ {position}) \cup {after}]

\* DELETE /positions/{position_id}
delete_position(position_id) ==
  IF ~\E q \in positions : q.id = position_id
    THEN [status |-> 404, positions |-> positions]
  ELSE [status |-> 204, positions |-> {q \in positions : q.id # position_id}]

\* DELETE /accounts/{account_id}: the relationship cascades to the
\* account's positions.  [status, accounts, positions]
delete_account(account_id) ==
  IF ~\E a \in accounts : a.id = account_id
    THEN [status |-> 404, accounts |-> accounts, positions |-> positions]
  ELSE [status |-> 204, accounts |-> {a \in accounts : a.id # account_id},
        positions |-> {q \in positions : q.account_id # account_id}]

\* The assistant's add_position: no _validate_position, no schema bounds;
\* a falsy yield_rate is stored as NULL.  [success, positions]
ai_add_position(p) ==
  IF ~\E a \in accounts : a.id = p.account_id
    THEN [success |-> FALSE, positions |-> positions]
  ELSE [success |-> TRUE,
        positions |-> positions \cup
          {PositionRow(NextId,
             [p EXCEPT !.currency = upper(p.currency),
                       !.yield_rate = IF Truthy(p.yield_rate) THEN p.yield_rate
                                      ELSE None])}]

\* The assistant's update_position by position_id: _apply_updates writes
\* quantity, cost_per_share, currency and yield_rate when they are sent.
ai_update_position(position_id, p) ==
  IF ~\E q \in positions : q.id = position_id
    THEN [success |-> FALSE, positions |-> positions]
  ELSE
    LET pos == CHOOSE q \in positions : q.id = position_id
        after == SetAttrs(pos, p)
    IN  [success |-> TRUE, positions |-> (positions \ {pos}) \cup {after}]

\* ---- request payloads
Yield5 == <<1, 20>>
NewPosition(account_id, symbol, category, quantity, yield_rate) ==
  [account_id |-> account_id, symbol |-> symbol, category |-> category,
   quantity |-> quantity, cost_per_share |-> 4, date_added |-> 9,
   currency |-> "USD", yield_rate |-> yield_rate]
CreatePayloads ==
  {NewPosition(a, sym, cat, qty, yld) :
     a \in {1, 2}, sym \in {"AAPL", ""}, cat \in {"Equity", "GIC"}, qty \in {0, 1},
     yld \in {None, Some(Yield5)}}
\* PositionUpdate bodies: any subset of the fields, no bound on any of them.
UpdatePayloads ==
  {[account_id |-> 2], [account_id |-> 3], [quantity |-> 0], [symbol |-> ""],
   [category |-> "GIC"], [category |-> "Equity"], [yield_rate |-> None],
   [category |-> "GIC", yield_rate |-> Some(Yield5)]}
AiUpdatePayloads == {[quantity |-> 0], [yield_rate |-> None], [yield_rate |-> Some(Yield5)]}
PositionIds == 1..(MaxStored + 1)
AccountIds == 1..(MaxStored + 1)

Answer(kind, status) == [kind |-> kind, status |-> status]
CrudFrame == UNCHANGED <<reporting_currency, history_source, syncVars, cacheVars, rpc, rinfo>>

\* POST /accounts
CreateAccount ==
  /\ NextAccountId <= MaxStored
  /\ accounts' = accounts \cup {Acct(NextAccountId, "USD")}
  /\ response' = Answer("create_account", 201)
  /\ UNCHANGED positions
  /\ CrudFrame

\* PUT /accounts/{account_id}
UpdateAccount ==
  /\ \E account_id \in AccountIds, base_currency \in {"CAD", "USD"} :
       IF \E a \in accounts : a.id = account_id
         THEN /\ accounts' = {IF a.id = account_id
                                THEN [a EXCEPT !.base_currency = base_currency]
                                ELSE a : a \in accounts}
              /\ response' = Answer("update_account", 200)
         ELSE /\ UNCHANGED accounts
              /\ response' = Answer("update_account", 404)
  /\ UNCHANGED positions
  /\ CrudFrame

DeleteAccount ==
  /\ \E account_id \in AccountIds :
       \E r \in {delete_account(account_id)} :
         /\ accounts' = r.accounts
         /\ positions' = r.positions
         /\ response' = Answer("delete_account", r.status)
  /\ CrudFrame

CreatePosition ==
  /\ NextId <= MaxStored
  /\ \E payload \in CreatePayloads :
       \E r \in {create_position(payload)} :
         /\ positions' = r.positions
         /\ response' = Answer("create_position", r.status)
  /\ UNCHANGED accounts
  /\ CrudFrame

UpdatePosition ==
  /\ \E position_id \in PositionIds, update_data \in UpdatePayloads :
       \E r \in {update_position(position_id, update_data)} :
         /\ positions' = r.positions
         /\ response' = Answer("update_position", r.status)
  /\ UNCHANGED accounts
  /\ CrudFrame

DeletePosition ==
  /\ \E position_id \in PositionIds :
       \E r \in {delete_position(position_id)} :
         /\ positions' = r.positions
         /\ response' = Answer("delete_position", r.status)
  /\ UNCHANGED accounts
  /\ CrudFrame

\* POST /ai/action/execute, add_position and update_position
AiAddPosition ==
  /\ NextId <= MaxStored
  /\ \E p \in CreatePayloads :
       \E r \in {ai_add_position(p)} :
         /\ positions' = r.positions
         /\ response' = Answer("ai_add_position", IF r.success THEN 200 ELSE 0)
  /\ UNCHANGED accounts
  /\ CrudFrame

AiUpdatePosition ==
  /\ \E position_id \in PositionIds, p \in AiUpdatePayloads :
       \E r \in {ai_update_position(position_id, p)} :
         /\ positions' = r.positions
         /\ response' = Answer("ai_update_position", IF r.success THEN 200 ELSE 0)
  /\ UNCHANGED accounts
  /\ CrudFrame

\* GET /history/{symbol} against the stored positions, the price source
\* answering with no data.
StoredHistory ==
  /\ \E h \in {get_history("AAPL", None, TRUE, "ok", <<>>)} :
       /\ response' = Answer("get_history", h.status)
       /\ price_cache' = h.store
  /\ UNCHANGED <<dbVars, syncVars, cpc, creq, cres, rpc, rinfo>>

\* --------------------------------------------------------- specifications
CacheFixture == {[cache_key |-> "AAPL", trade_date |-> isoformat(9), close |-> 5]}

InitSyncVars ==
  /\ market_data = {}
  /\ fx_rates = {}
  /\ sync_lock = FALSE
  /\ pc = [t \in Threads |-> "idle"]
  /\ run = [t \in Threads |-> 0]
  /\ calls = <<>>
  /\ session = [t \in Threads |-> EmptySession]
  /\ clock = 0

InitCacheVars ==
  /\ cpc = "idle"
  /\ creq = NoRequest
  /\ cres = NoResult

InitReadVars ==
  /\ rpc = [r \in Readers |-> "idle"]
  /\ rinfo = [r \in Readers |-> NoRead]
  /\ response = NoResponse

InitFixture ==
  /\ accounts = FixtureAccounts
  /\ positions = FixturePositions
  /\ reporting_currency = "CAD"
  /\ history_source = NoHistory

\* The refresh job, triggered by the scheduler and by manual requests, with
\* read requests arriving in between.
InitSync ==
  /\ InitFixture
  /\ InitSyncVars
  /\ InitCacheVars
  /\ InitReadVars
  /\ price_cache = CacheFixture

NextSync ==
  \/ \E t \in Threads : Acquire(t)
  \/ \E t \in Threads : OpenSession(t)
  \/ \E t \in Threads : OpenSessionFails(t)
  \/ \E t \in Threads : Query(t)
  \/ \E t \in Threads : FetchPrices(t)
  \/ \E t \in Threads : FetchFx(t)
  \/ \E t \in Threads : Commit(t)
  \/ \E t \in Threads : Raise(t)
  \/ \E t \in Threads : Rollback(t)
  \/ \E t \in Threads : Finally(t)
  \/ \E r \in Readers : StartRead(r)
  \/ \E r \in Readers : FinishRead(r)

SpecSync == InitSync /\ [][NextSync]_vars

\* History requests against an initially empty cache file.
InitCache ==
  /\ InitFixture
  /\ InitSyncVars
  /\ InitCacheVars
  /\ InitReadVars
  /\ price_cache = {}

NextCache ==
  \/ FetchOrCacheCall
  \/ FetchOrCacheRun
  \/ GetHistoryCall
  \/ GetHistoryRun
  \/ HistoryReturn

SpecCache == InitCache /\ [][NextCache]_vars

\* The currency reads over bounded fx_rates snapshots. A quote of a currency
\* pair is a positive number (fetch_fx_rates_batch drops a zero quote); the
\* snapshot holds one row for each of at most MaxRows ordered pairs.
RateVals == {<<1, 2>>, <<2, 1>>, <<11, 10>>, <<27, 20>>}
OrderedPairs == {<<a, b>> \in Currencies \X Currencies : a # b}
FixturePositionsEur == FixturePositions \cup {Pos(5, 1, "SAP", "Equity", 1, 3, 9, "EUR")}

InitFx ==
  /\ accounts = FixtureAccounts
  /\ positions \in {FixturePositions, FixturePositionsEur}
  /\ reporting_currency \in {"CAD", "USD"}
  /\ history_source = NoHistory
  /\ \E P \in {Q \in SUBSET OrderedPairs : Cardinality(Q) <= MaxRows} :
       \E f \in [P -> RateVals] :
         fx_rates = {[pair |-> PairKey(p[1], p[2]), rate |-> f[p],
                      timestamp |-> 0, call |-> 0] : p \in P}
  /\ market_data = {}
  /\ sync_lock = FALSE
  /\ pc = [t \in Threads |-> "idle"]
  /\ run = [t \in Threads |-> 0]
  /\ calls = <<>>
  /\ session = [t \in Threads |-> EmptySession]
  /\ clock = 0
  /\ InitCacheVars
  /\ InitReadVars
  /\ price_cache = {}

NextFx ==
  \/ FxMatrixRequest
  \/ SummaryRequest

SpecFx == InitFx /\ [][NextFx]_vars


\* Aggregate history over bounded portfolios, latest-rate snapshots and price
\* sources.  The trading days are AggDates (the third lies 365 days after the
\* fixture date 9).  The series of a portfolio's first symbol holds at most
\* MaxPoints of them, the series of a further symbol the first m days, every
\* currency series the first n days (m, n <= MaxPoints).  A currency quote
\* can be 0, and the two directions of a pair are quoted independently.
AggDates == {9, 10, 374}
CloseOn(key, d) ==
  CASE key = "CADUSD=X" -> (CASE d = 9 -> 2 [] d = 10 -> 0 [] OTHER -> 5)
    [] key = "USDCAD=X" -> (CASE d = 9 -> 3 [] d = 10 -> 4 [] OTHER -> 0)
    [] key = "EURUSD=X" -> (CASE d = 9 -> 2 [] d = 10 -> 0 [] OTHER -> 3)
    [] key = "MSFT" -> (CASE d = 9 -> 4 [] d = 10 -> 9 [] OTHER -> 11)
    [] OTHER -> (CASE d = 9 -> 5 [] d = 10 -> 6 [] OTHER -> 8)
SeriesOver(key, D) ==
  LET dates == SortedDates(D)
  IN  [i \in 1..Len(dates) |-> <<dates[i], CloseOn(key, dates[i])>>]
FirstDays(n) == {d \in AggDates : Cardinality({e \in AggDates : e <= d}) <= n}

AggPositions1 ==
  {Pos(1, 1, "AAPL", "Equity", 2, 4, 10, "USD"),
   Pos(2, 2, "AAPL", "Equity", 1, 7, 9, "usd"),
   Pos(3, 2, "MSFT", "Equity", 3, 5, 9, "USD"),
   WithYield(Pos(4, 2, "BOND", "GIC", 1, 100, 9, "CAD"), <<1, 20>>),
   Pos(6, 1, "CASH", "Cash", 3, 2, 10, "USD")}
AggPositions2 ==
  {Pos(1, 1, "RY", "Equity", 2, 4, 9, "CAD"),
   Pos(6, 2, "CASH", "Cash", 3, 2, 10, "USD")}
AggPositions3 ==
  {Pos(1, 1, "SAP", "Equity", 1, 3, 9, "EUR"),
   Pos(2, 2, "SAP", "Equity", 1, 3, 9, "EUR")}
AggFixtures ==
  {[positions |-> AggPositions1, first |-> "AAPL", symbols |-> {"AAPL", "MSFT"},
    tickers |-> {"USDCAD=X"}],
   [positions |-> AggPositions2, first |-> "RY", symbols |-> {"RY"},
    tickers |-> {"CADUSD=X", "USDCAD=X"}],
   [positions |-> AggPositions3, first |-> "SAP", symbols |-> {"SAP"},
    tickers |-> {"EURUSD=X"}]}
AggSources(fixture) ==
  {[k \in fixture.symbols \cup fixture.tickers |->
      IF k = fixture.first THEN SeriesOver(k, D)
      ELSE IF k \in fixture.symbols THEN SeriesOver(k, FirstDays(m))
      ELSE SeriesOver(k, FirstDays(n))] :
     D \in {E \in SUBSET AggDates : Cardinality(E) <= MaxPoints},
     m \in 0..MaxPoints, n \in 0..MaxPoints}

\* Latest-rate snapshots.  The last one holds a row for a currency against
\* itself: no writer stores one (refresh and sync_prices skip equal pairs),
\* the readers must not use it.
FxRow(pair, rate) == [pair |-> pair, rate |-> rate, timestamp |-> 0, call |-> 0]
AggSnapshots ==
  {{},
   {FxRow("CAD/USD", <<1, 2>>)},
   {FxRow("EUR/USD", <<2, 1>>), FxRow("USD/CAD", <<27, 20>>), FxRow("EUR/CAD", <<3, 1>>)},
   {FxRow("USD/CAD", <<27, 20>>), FxRow("CAD/CAD", <<2, 1>>), FxRow("USD/USD", <<1, 2>>)}}

InitAgg ==
  /\ accounts = FixtureAccounts
  /\ reporting_currency = "CAD"
  /\ \E fixture \in AggFixtures :
       /\ positions = fixture.positions
       /\ history_source \in AggSources(fixture)
  /\ fx_rates \in AggSnapshots
  /\ market_data = {}
  /\ sync_lock = FALSE
  /\ pc = [t \in Threads |-> "idle"]
  /\ run = [t \in Threads |-> 0]
  /\ calls = <<>>
  /\ session = [t \in Threads |-> EmptySession]
  /\ clock = 0
  /\ InitCacheVars
  /\ InitReadVars
  /\ price_cache = {}

NextAgg ==
  \/ AggregateCall
  \/ AggregateRun
  \/ HistoryReturn
  \/ FxMatrixRequest
  \/ SummaryRequest

SpecAgg == InitAgg /\ [][NextAgg]_vars

\* Summaries over bounded portfolios and tables.  market_data is what up to
\* two refreshes leave: each wrote, or did not, a row for AAPL, the first
\* with the quote 150, the second with the quote 8 or with no price; MSFT has
\* one row or none.  Deposits and withdrawals are recorded in between.
MdRow(symbol, price, t) ==
  [symbol |-> symbol, last_price |-> price, timestamp |-> t, call |-> t]
SnapMarketData ==
  {a0 \cup a1 \cup m :
     a0 \in {{}, {MdRow("AAPL", Some(150), 0)}},
     a1 \in {{}, {MdRow("AAPL", Some(8), 1)}, {MdRow("AAPL", None, 1)}},
     m \in {{}, {MdRow("MSFT", Some(9), 0)}}}
SnapPositions1 == {Pos(1, 1, "AAPL", "Equity", 10, 100, 9, "USD")}
SnapPositions2 ==
  FixturePositions \cup {Pos(5, 1, "AAPL", "Dividend", 2, 1, 10, "USD")}
SnapSnapshots ==
  {{}, {FxRow("USD/CAD", <<27, 20>>)}, {FxRow("CAD/USD", <<1, 2>>)}}

InitSnap ==
  /\ accounts = FixtureAccounts
  /\ reporting_currency = "CAD"
  /\ positions \in {{}, SnapPositions1, SnapPositions2}
  /\ history_source = NoHistory
  /\ market_data \in SnapMarketData
  /\ fx_rates \in SnapSnapshots
  /\ sync_lock = FALSE
  /\ pc = [t \in Threads |-> "idle"]
  /\ run = [t \in Threads |-> 0]
  /\ calls = <<>>
  /\ session = [t \in Threads |-> EmptySession]
  /\ clock = 2
  /\ InitCacheVars
  /\ InitReadVars
  /\ price_cache = {}

NextSnap ==
  \/ GetSummary
  \/ RecordCash

SpecSnap == InitSnap /\ [][NextSnap]_vars

\* The REST and assistant operations on accounts and positions, from an
\* empty database.
InitCrud ==
  /\ accounts = {}
  /\ positions = {}
  /\ reporting_currency = "CAD"
  /\ history_source = NoHistory
  /\ market_data = {}
  /\ fx_rates = {}
  /\ sync_lock = FALSE
  /\ pc = [t \in Threads |-> "idle"]
  /\ run = [t \in Threads |-> 0]
  /\ calls = <<>>
  /\ session = [t \in Threads |-> EmptySession]
  /\ clock = 0
  /\ InitCacheVars
  /\ InitReadVars
  /\ price_cache = {}

NextCrud ==
  \/ CreateAccount
  \/ UpdateAccount
  \/ DeleteAccount
  \/ CreatePosition
  \/ UpdatePosition
  \/ DeletePosition
  \/ AiAddPosition
  \/ AiUpdatePosition
  \/ StoredHistory

SpecCrud == InitCrud /\ [][NextCrud]_vars

\* ------------------------------------------------------------- properties
\* Call ids of the calls that found the lock held.
BusyCalls == {c \in 1..Len(calls) : calls[c].busy}

\* C1: at most one execution of sync_market_data is inside the section that
\* reads positions, fetches prices/FX and writes rows, whatever the
\* interleaving of scheduled and manual triggers.
C1_RefreshMutualExclusion ==
  Cardinality({t \in Threads : pc[t] \in InSection}) <= 1

\* A refresh is fetching FX inside the section after another trigger found it
\* running.
C1_Witness ==
  /\ \E t \in Threads : pc[t] = "fx"
  /\ BusyCalls # {}

\* C2: a refresh triggered while another is in flight returns at once: it
\* does not wait, ends as skipped (no error), and no market_data or fx_rates
\* row, committed or pending in a session, comes from it.
C2_ContendedRefreshIsNoOp ==
  \A c \in BusyCalls :
    /\ calls[c].status = "skipped"
    /\ \A t \in Threads : run[t] # c
    /\ \A r \in market_data \cup fx_rates : r.call # c
    /\ \A t \in Threads : \A r \in session[t].md \cup session[t].fx : r.call # c

\* Both refreshes are over: the first committed rows, the second was skipped.
C2_Witness ==
  /\ \A t \in Threads : pc[t] = "idle"
  /\ BusyCalls # {}
  /\ \E c \in 1..Len(calls) : calls[c].status = "committed"
  /\ market_data # {}
  /\ fx_rates # {}

\* C3: a read (snapshot summary, FX matrix, cache-only history read) that has
\* started can always complete, also while a refresh holds the lock.
C3_ReadsNeverWaitOnRefreshLock ==
  \A r \in Readers : rpc[r] = "reading" => ENABLED FinishRead(r)

\* A read that started during a refresh has completed while that refresh was
\* still in flight.
C3_Witness ==
  \E r \in Readers : rpc[r] = "idle" /\ rinfo[r].overlapped /\ rinfo[r].status = 200

\* Index of the last point of series q with the date of point i.
LastSameDate(q, i) ==
  CHOOSE j \in i..Len(q) :
    /\ q[j][1] = q[i][1]
    /\ \A k \in (j + 1)..Len(q) : q[k][1] # q[i][1]

\* The request that has just run wrote the series creq.source to the cache.
Wrote ==
  /\ cpc = "returned"
  /\ ~creq.use_cache
  /\ cres.ext = 1
  /\ cres.io = "ok"
  /\ creq.source # <<>>

\* C4: the cache holds at most one row per (cache_key, trade_date), and after
\* a write a read returns, for every date written, the close of the latest
\* write for that (key, date).
C4_CacheIdempotence ==
  /\ \A r1, r2 \in price_cache :
       (r1.cache_key = r2.cache_key /\ r1.trade_date = r2.trade_date) => r1 = r2
  /\ Wrote =>
       LET q == creq.source
           df == read_cache(creq.key, MinOf(Dates), "ok").df
       IN  \A i \in 1..Len(q) :
             /\ Cardinality({k \in 1..Len(df) : df[k][1] = q[i][1]}) = 1
             /\ \E k \in 1..Len(df) : df[k] = <<q[i][1], q[LastSameDate(q, i)][2]>>

\* A write replaced the close that an earlier request stored for the same
\* (key, date), and wrote one (key, date, close) that was stored already.
C4_Witness ==
  /\ Wrote
  /\ \E r \in cres.before : \E i \in 1..Len(creq.source) :
       /\ r.cache_key = creq.key
       /\ r.trade_date = isoformat(creq.source[i][1])
       /\ r.close # creq.source[LastSameDate(creq.source, i)][2]
  /\ \E r \in cres.before : \E i \in 1..Len(creq.source) :
       r = [cache_key |-> creq.key, trade_date |-> isoformat(creq.source[i][1]),
            close |-> creq.source[i][2]]

\* The rows of the cache a read of (key, start) selects.
CachedRows(key, start) ==
  {r \in price_cache : r.cache_key = key /\ to_date(r.trade_date) >= start}

\* C5: with use_cache=true neither _fetch_or_cache nor get_history calls
\* fetch_history, and with no cached row for the key the result is an empty
\* series, not an error.
C5_CacheOnlyNeverFetches ==
  (cpc = "returned" /\ creq.use_cache) =>
    /\ cres.ext = 0
    /\ price_cache = cres.before
    /\ cres.status \in {200, 404, 422}
    /\ (CachedRows(creq.key, creq.start) = {} /\ cres.status = 200) => cres.df = <<>>

\* A cache-only request for a key with no cached rows, while the price source
\* would have answered with points, returned the empty series.
C5_Witness ==
  /\ cpc = "returned"
  /\ creq.use_cache
  /\ creq.source # <<>>
  /\ cres.io = "ok"
  /\ CachedRows(creq.key, creq.start) = {}
  /\ price_cache # {}
  /\ cres.status = 200
  /\ cres.df = <<>>

\* C6: with use_cache=false _fetch_or_cache calls fetch_history once, returns
\* the fetched series also when the cache write fails, and when the write
\* goes through every returned (date, close) point is stored under
\* (key, date).
C6_LiveFetchUpsertsAndReturns ==
  (cpc = "returned" /\ creq.op = "_fetch_or_cache" /\ ~creq.use_cache) =>
    /\ cres.ext = 1
    /\ cres.status = 200
    /\ cres.df = creq.source
    /\ cres.io = "ok" =>
         \A i \in 1..Len(creq.source) :
           [cache_key |-> creq.key,
            trade_date |-> isoformat(creq.source[i][1]),
            close |-> creq.source[LastSameDate(creq.source, i)][2]] \in price_cache

\* The cache write failed and the caller still has the fetched two-day series.
C6_Witness ==
  /\ cpc = "returned"
  /\ creq.op = "_fetch_or_cache"
  /\ ~creq.use_cache
  /\ cres.io = "exec_error"
  /\ Len(cres.df) = 2
  /\ cres.df[1][1] # cres.df[2][1]
  /\ price_cache = cres.before

\* C7: a failure of the cache file I/O never reaches the caller: a failed
\* read gives the empty series, a failed write leaves the request to
\* continue with the fetched series.
C7_CacheFailuresSwallowed ==
  (cpc = "returned" /\ cres.io # "ok") =>
    /\ cres.status # 500
    /\ (creq.use_cache /\ cres.status = 200) => cres.df = <<>>
    /\ (~creq.use_cache /\ cres.status = 200) => Len(cres.df) = Len(creq.source)

\* A cache-only read of a key that has cached rows failed to open the cache
\* and returned the empty series.
C7_Witness ==
  /\ cpc = "returned"
  /\ creq.use_cache
  /\ cres.io = "conn_error"
  /\ CachedRows(creq.key, creq.start) # {}
  /\ cres.status = 200
  /\ cres.df = <<>>

\* The latest fx_rates rows hold a positive rate for the pair a/b.
HasRate(a, b) ==
  \E r \in LatestFxRates : r.pair = PairKey(a, b) /\ RPos(r.rate)
\* a -> b resolves without the anchor: same currency, direct or inverse row.
LegResolved(a, b) == a = b \/ HasRate(a, b) \/ HasRate(b, a)
\* Wherever the map holds both directions of a pair, the two rows are
\* reciprocals of each other.
Consistent(fx) ==
  \A a, b \in Currencies :
    (PairKey(a, b) \in DOMAIN fx /\ PairKey(b, a) \in DOMAIN fx)
      => fx[PairKey(a, b)] = RInv(fx[PairKey(b, a)])
\* summary._lookup_fx resolves a -> b (it does not take the 1.0 fallback).
SummaryResolves(fx, a, b) ==
  \/ a = b
  \/ PairKey(a, b) \in DOMAIN fx
  \/ PairKey(b, a) \in DOMAIN fx /\ ~RZero(fx[PairKey(b, a)])
\* Reciprocity of the matrix cells and of the snapshot lookup.
MatrixReciprocal ==
  response.kind = "fx_matrix" =>
    LET m == response.body.matrix
    IN  \A a, b \in response.body.currencies :
          (m[a][b] # None /\ m[b][a] # None) => m[a][b] = RInv(m[b][a])
SummaryReciprocal ==
  response.kind = "summary" =>
    LET fx == _get_latest_fx_rates
    IN  \A a, b \in Currencies :
          (SummaryResolves(fx, a, b) /\ SummaryResolves(fx, b, a))
            => _lookup_fx(fx, a, b) = RInv(_lookup_fx(fx, b, a))

\* C8 as stated: whenever rate(a, b) and rate(b, a) both resolve,
\* rate(a, b) = 1 / rate(b, a), also when the map holds both an 'A/B' and a
\* 'B/A' row.
C8_ReciprocityAsStated ==
  /\ MatrixReciprocal
  /\ SummaryReciprocal

\* C8 amended: on a rate map whose 'A/B' and 'B/A' rows, where both are
\* present, are reciprocals of each other, rate(a, b) = 1 / rate(b, a)
\* whenever both directions resolve (matrix lookup and snapshot lookup).
C8_ReciprocityOnConsistentMaps ==
  Consistent(_get_latest_fx_rates) => (MatrixReciprocal /\ SummaryReciprocal)

\* The matrix of a map holding USD/CAD = 2 and CAD/USD = 1/2 has the
\* triangulated cells EUR -> USD = 11/20 and USD -> EUR = 20/11.
C8_Witness ==
  /\ response.kind = "fx_matrix"
  /\ HasRate("USD", "CAD")
  /\ HasRate("CAD", "USD")
  /\ Consistent(_get_latest_fx_rates)
  /\ "EUR" \in response.body.currencies
  /\ response.body.matrix["EUR"]["USD"] = <<11, 20>>
  /\ response.body.matrix["USD"]["EUR"] = <<20, 11>>

\* C9 as stated, read for two different currencies a, b: for a, b distinct
\* from the anchor, if rate(a, anchor) and rate(anchor, b) resolve then
\* rate(a, b) is their product.
C9_TriangulationAsStated ==
  response.kind = "fx_matrix" =>
    LET m == response.body.matrix
        via == upper(reporting_currency)
    IN  \A a, b \in response.body.currencies \ {via} :
          (a # b /\ m[a][via] # None /\ m[via][b] # None)
            => m[a][b] = RMul(m[a][via], m[via][b])

\* C9 amended: for distinct a, b, both distinct from the anchor, with no
\* usable direct 'a/b' row and no usable inverse 'b/a' row, if
\* rate(a, anchor) and rate(anchor, b) resolve then rate(a, b) is their
\* product.
C9_TriangulationWithoutDirectRow ==
  response.kind = "fx_matrix" =>
    LET m == response.body.matrix
        via == upper(reporting_currency)
    IN  \A a, b \in response.body.currencies \ {via} :
          (a # b /\ ~HasRate(a, b) /\ ~HasRate(b, a)
             /\ m[a][via] # None /\ m[via][b] # None)
            => m[a][b] = RMul(m[a][via], m[via][b])

\* EUR/USD = 1.10 and USD/CAD = 1.35 with anchor USD give EUR -> CAD = 1.485.
C9_Witness ==
  /\ response.kind = "fx_matrix"
  /\ reporting_currency = "USD"
  /\ _get_latest_fx_rates = [k \in {"EUR/USD", "USD/CAD"} |->
                               IF k = "EUR/USD" THEN <<11, 10>> ELSE <<27, 20>>]
  /\ "EUR" \in response.body.currencies
  /\ response.body.matrix["EUR"]["CAD"] = <<297, 200>>

\* Every currency an account, a position or the reporting currency names.
ReferencedCurrencies ==
  {upper(c) : c \in {a.base_currency : a \in accounts}
                      \cup {p.currency : p \in positions}
                      \cup {reporting_currency}}

\* C10: the matrix has a cell for every ordered pair of referenced
\* currencies; a cell is null exactly when the pair has no direct rate (the
\* rate of a currency to itself being 1), no usable inverse rate, and one of
\* the legs through the anchor is unresolved; computing it does not raise.
C10_MatrixCells ==
  response.kind = "fx_matrix" =>
    LET body == response.body
        via == upper(reporting_currency)
    IN  /\ body.status = 200
        /\ body.currencies = ReferencedCurrencies
        /\ DOMAIN body.matrix = ReferencedCurrencies
        /\ \A f \in ReferencedCurrencies :
             /\ DOMAIN body.matrix[f] = ReferencedCurrencies
             /\ \A t \in ReferencedCurrencies :
                  (body.matrix[f][t] = None) <=>
                    /\ ~LegResolved(f, t)
                    /\ (~LegResolved(f, via) \/ ~LegResolved(via, t))

\* With anchor USD and only EUR -> USD resolved, the cell EUR -> CAD is null
\* while EUR -> USD and USD -> EUR are not.
C10_Witness ==
  /\ response.kind = "fx_matrix"
  /\ reporting_currency = "USD"
  /\ "EUR" \in response.body.currencies
  /\ LegResolved("EUR", "USD")
  /\ ~LegResolved("USD", "CAD")
  /\ response.body.matrix["EUR"]["CAD"] = None
  /\ response.body.matrix["USD"]["EUR"] # None
  /\ response.body.matrix["CAD"]["CAD"] = One

\* The aggregate request whose response is held.
AggReturned == cpc = "returned" /\ creq.op = "get_aggregate_history"
HistFxOfRequest == IF AggReturned THEN cres.trace.hist_fx ELSE <<>>
HasRow(pair) == \E r \in fx_rates : r.pair = pair
AccountOf(p) == CHOOSE a \in accounts : a.id = p.account_id

\* C11: the rate from a currency to itself is 1.0 in each resolver (the matrix
\* lookup, the summary _lookup_fx, the history _lookup_fx and _fx_on_date),
\* for every currency and every rate map, the empty one and one holding a
\* row for the currency against itself included; so the diagonal of the
\* matrix is 1 and a leg between equal currencies of a summary is 1.
C11_SameCurrencyIsOne ==
  /\ \A c \in Currencies :
       /\ lookup(_get_latest_fx_rates, upper(reporting_currency), c, c) = One
       /\ _lookup_fx(_get_latest_fx_rates, c, c) = One
       /\ _lookup_fx_history(_get_fx_rates, c, c) = One
       /\ \A d \in AggDates :
            _fx_on_date(HistFxOfRequest, _get_fx_rates, c, c, d) = One
  /\ (response.kind = "fx_matrix" /\ response.body.status = 200) =>
       \A c \in response.body.currencies : response.body.matrix[c][c] = One
  /\ response.kind = "summary" =>
       \A leg \in response.body.legs : \A p \in positions :
         p.id = leg.id =>
           /\ upper(p.currency) = upper(AccountOf(p).base_currency)
                => leg.fx_stock_to_account = One
           /\ upper(AccountOf(p).base_currency) = upper(reporting_currency)
                => leg.fx_account_to_reporting = One

\* The snapshot holds CAD/CAD = 2 and USD/USD = 1/2; the matrix was served
\* with 1 on the diagonal, and the aggregate of account 2 valued the CAD GIC
\* of the CAD account on its opening day at its cost, 100.
C11_Witness ==
  /\ HasRow("CAD/CAD")
  /\ HasRow("USD/USD")
  /\ response.kind = "fx_matrix"
  /\ response.body.matrix["CAD"]["CAD"] = One
  /\ response.body.matrix["USD"]["USD"] = One
  /\ AggReturned
  /\ creq.account_id = Some(2)
  /\ positions = AggPositions1
  /\ cres.status = 200
  /\ Len(cres.df) > 0
  /\ cres.df[1].date = 9
  /\ cres.df[1].cash_gic = RInt(100)

\* The historical series of a pair quotes a positive rate on a date.
HistQuote(hist, a, b, d) ==
  {hist[PairKey(a, b)][i][2] :
     i \in {j \in 1..Len(hist[PairKey(a, b)]) : hist[PairKey(a, b)][j][1] = d}}
Usable(hist, a, b, d) ==
  /\ PairKey(a, b) \in DOMAIN hist
  /\ \E q \in HistQuote(hist, a, b, d) : q > 0

\* C12: the historical rate of a pair on a date is the historical rate of
\* that date when the series has a positive one, else the reciprocal of the
\* historical inverse rate of that date when that is positive, else the rate
\* of the latest snapshot; it is always a number (a missing series, a missing
\* date or a non-positive quote never aborts the request), and the factor
\* applied to a symbol on a date is the product of its two legs so resolved.
C12_HistoricalFxOrder ==
  (AggReturned /\ cres.status # 404) =>
    /\ cres.status \in {200, 503}
    /\ \A a, b \in Currencies : \A d \in AggDates :
         LET hist == cres.trace.hist_fx
             r == _fx_on_date(hist, _get_fx_rates, a, b, d)
         IN  a # b =>
               /\ ~IsError(r)
               /\ Usable(hist, a, b, d) => \E q \in HistQuote(hist, a, b, d) : r = <<q, 1>>
               /\ (~Usable(hist, a, b, d) /\ Usable(hist, b, a, d)) =>
                    \E q \in HistQuote(hist, b, a, d) : RMul(r, <<q, 1>>) = One
               /\ (~Usable(hist, a, b, d) /\ ~Usable(hist, b, a, d)) =>
                    r = _lookup_fx_history(_get_fx_rates, a, b)
    /\ \A s \in DOMAIN cres.trace.contrib : \A d \in DOMAIN cres.trace.contrib[s] :
         LET eq == EquityOf(creq.account_id)
             rep == upper(reporting_currency)
         IN  cres.trace.contrib[s][d].mtm =
               RMul(RInt(cres.trace.aligned[s][d] * SumQuantity(SymGroup(eq, s))),
                    RMul(_fx_on_date(cres.trace.hist_fx, _get_fx_rates,
                                     StockCcy(eq, s), AcctCcy(eq, s, rep), d),
                         _fx_on_date(cres.trace.hist_fx, _get_fx_rates,
                                     AcctCcy(eq, s, rep), rep, d)))

\* A CAD stock in the USD account, reported in CAD, with both directions of
\* the pair fetched for days 9 and 10: on day 9 both legs take their own
\* quotes (2 and 3), on day 10 CAD -> USD is quoted 0 and takes 1/4 from the
\* inverse series, and with no day-374 quote a leg takes the snapshot's rate.
C12_Witness ==
  /\ AggReturned
  /\ cres.status = 200
  /\ positions = AggPositions2
  /\ DOMAIN cres.trace.hist_fx = {"CAD/USD", "USD/CAD"}
  /\ HasRow("CAD/USD")
  /\ DOMAIN cres.trace.contrib["RY"] = {9, 10}
  /\ cres.trace.contrib["RY"][9].mtm = RInt(5 * 2 * 2 * 3)
  /\ _fx_on_date(cres.trace.hist_fx, _get_fx_rates, "CAD", "USD", 10) = <<1, 4>>
  /\ _fx_on_date(cres.trace.hist_fx, _get_fx_rates, "USD", "CAD", 10) = <<4, 1>>
  /\ _fx_on_date(cres.trace.hist_fx, _get_fx_rates, "CAD", "USD", 374) = <<1, 2>>
  /\ _fx_on_date(cres.trace.hist_fx, _get_fx_rates, "USD", "CAD", 374) = <<2, 1>>

\* A leg no source resolves on a date: no positive historical rate or
\* inverse rate on it, and neither the pair nor its inverse in the snapshot.
Unresolvable(hist, a, b, d) ==
  /\ a # b
  /\ ~Usable(hist, a, b, d)
  /\ ~Usable(hist, b, a, d)
  /\ ~HasRow(PairKey(a, b))
  /\ ~HasRow(PairKey(b, a))
\* The two legs the aggregate resolves for a symbol.
LegsOf(s) ==
  LET eq == EquityOf(creq.account_id)
      rep == upper(reporting_currency)
  IN  <<<<StockCcy(eq, s), AcctCcy(eq, s, rep)>>, <<AcctCcy(eq, s, rep), rep>>>>
\* The rate of a leg on a date, 1 for an unresolvable one.
LegAtPar(hist, leg, d) ==
  IF Unresolvable(hist, leg[1], leg[2], d) THEN One
  ELSE _fx_on_date(hist, _get_fx_rates, leg[1], leg[2], d)
AvgCost(s) ==
  RDiv(RInt(SumCost(SymGroup(EquityOf(creq.account_id), s))),
       RInt(SumQuantity(SymGroup(EquityOf(creq.account_id), s))))

\* C13 as stated: a holding with an unresolvable leg on a date contributes
\* zero to that date's MTM and PnL.
C13_UnresolvedLegContributesZero ==
  (AggReturned /\ cres.status = 200) =>
    \A s \in DOMAIN cres.trace.contrib : \A d \in DOMAIN cres.trace.contrib[s] :
      (\E i \in 1..2 :
         Unresolvable(cres.trace.hist_fx, LegsOf(s)[i][1], LegsOf(s)[i][2], d)) =>
        /\ cres.trace.contrib[s][d].mtm = RInt(0)
        /\ cres.trace.contrib[s][d].pnl = RInt(0)

\* C13, amended: an unresolvable leg is converted at the factor 1.0, so the
\* holding contributes close x quantity x the other leg's rate to that date's
\* MTM, and (close - average cost) x quantity x the other leg's rate to its PnL.
C13_UnresolvedLegAtPar ==
  (AggReturned /\ cres.status = 200) =>
    \A s \in DOMAIN cres.trace.contrib : \A d \in DOMAIN cres.trace.contrib[s] :
      LET hist == cres.trace.hist_fx
          qty == RInt(SumQuantity(SymGroup(EquityOf(creq.account_id), s)))
          close == RInt(cres.trace.aligned[s][d])
          factor == RMul(LegAtPar(hist, LegsOf(s)[1], d), LegAtPar(hist, LegsOf(s)[2], d))
      IN  /\ cres.trace.contrib[s][d].mtm = RMul(RMul(close, qty), factor)
          /\ cres.trace.contrib[s][d].pnl =
               RMul(RMul(RSub(close, AvgCost(s)), qty), factor)

\* The EUR stock of the USD account with no currency series and only a
\* CAD/USD = 1/2 row: EUR -> USD is unresolvable, USD -> CAD is 2, and the
\* two shares closing at 5 on day 9 add 5 x 2 x 1 x 2 = 20 to the MTM.
C13_Witness ==
  /\ AggReturned
  /\ cres.status = 200
  /\ positions = AggPositions3
  /\ creq.account_id = None
  /\ cres.trace.hist_fx = <<>>
  /\ fx_rates = {FxRow("CAD/USD", <<1, 2>>)}
  /\ Unresolvable(cres.trace.hist_fx, "EUR", "USD", 9)
  /\ ~Unresolvable(cres.trace.hist_fx, "USD", "CAD", 9)
  /\ "SAP" \in DOMAIN cres.trace.contrib
  /\ 9 \in DOMAIN cres.trace.contrib["SAP"]
  /\ cres.trace.contrib["SAP"][9].mtm = RInt(20)
  /\ cres.trace.contrib["SAP"][9].pnl = RInt(8)

\* C14: the aligned series of a symbol lies on exactly the dates of the
\* union axis on or after the symbol's first observation, its value on a date
\* is the symbol's own most recent close at or before that date, the union
\* axis is the set of all observed dates and is at least as long as the
\* longest input series; a symbol without observations has no aligned series.
C14_Alignment ==
  (AggReturned /\ cres.status \in {200, 503}) =>
    LET dfs == cres.trace.sym_dfs
        axis == cres.trace.all_dates
        aligned == cres.trace.aligned
    IN  /\ \A s \in DOMAIN dfs : Len(dfs[s]) > 0
        /\ axis = UNION {{dfs[s][i][1] : i \in 1..Len(dfs[s])} : s \in DOMAIN dfs}
        /\ DOMAIN aligned = DOMAIN dfs
        /\ \A s \in DOMAIN dfs :
             /\ Cardinality(axis) >= Len(dfs[s])
             /\ DOMAIN aligned[s] = {d \in axis : d >= dfs[s][1][1]}
             /\ \A d \in DOMAIN aligned[s] :
                  \E i \in 1..Len(dfs[s]) :
                    /\ dfs[s][i][1] <= d
                    /\ \A j \in 1..Len(dfs[s]) : dfs[s][j][1] <= d => dfs[s][j][1] <= dfs[s][i][1]
                    /\ aligned[s][d] = dfs[s][i][2]

\* AAPL observed on days 10 and 374, MSFT on day 9 only: MSFT is carried
\* forward to 10 and 374, AAPL has no value on day 9.
C14_Witness ==
  /\ AggReturned
  /\ cres.status = 200
  /\ DOMAIN cres.trace.sym_dfs = {"AAPL", "MSFT"}
  /\ cres.trace.all_dates = {9, 10, 374}
  /\ DOMAIN cres.trace.aligned["AAPL"] = {10, 374}
  /\ cres.trace.aligned["AAPL"][374] = 8
  /\ DOMAIN cres.trace.aligned["MSFT"] = {9, 10, 374}
  /\ cres.trace.aligned["MSFT"][9] = 4
  /\ cres.trace.aligned["MSFT"][374] = 4

\* The MTM of one equity position on a date, converted through the legs of
\* the position's own account.
OwnLegsMtm(p, d) ==
  LET rep == upper(reporting_currency)
      acct_ccy == AccountCurrency(p.account_id, rep)
  IN  RMul(RInt(cres.trace.aligned[p.symbol][d] * p.quantity),
           RMul(_fx_on_date(cres.trace.hist_fx, _get_fx_rates, upper(p.currency),
                            acct_ccy, d),
                _fx_on_date(cres.trace.hist_fx, _get_fx_rates, acct_ccy, rep, d)))

\* C15: the equity aggregate converts each symbol/account combination through
\* that account's own legs (trade currency -> account currency -> reporting
\* currency), also when one symbol is held in accounts with different base
\* currencies: the equity MTM of a date is the sum of the positions' values
\* so converted.
C15_EachAccountThroughItsOwnLegs ==
  (AggReturned /\ cres.status = 200) =>
    \A d \in cres.trace.all_dates :
      LET held == {p \in EquityOf(creq.account_id) :
                     /\ p.symbol \in DOMAIN cres.trace.aligned
                     /\ d \in DOMAIN cres.trace.aligned[p.symbol]}
      IN  cres.trace.equity[d].mtm =
            RSum([i \in {p.id : p \in held} |->
                    OwnLegsMtm(CHOOSE p \in held : p.id = i, d)])

\* The Cash and GIC positions of the request, and what each adds on a date
\* in its own currency: cost x (365 x yd + yn x days) / (365 x yd) is the
\* accrued value of a GIC with yield yn / yd.
CashGicOf(account_id) ==
  {p \in positions :
     /\ p.category \in {"Cash", "GIC"}
     /\ (account_id # None => p.account_id = account_id[1])}
Accrued(pos, d) ==
  IF pos.yield_rate = None THEN RInt(pos.cost_per_share)
  ELSE Norm(<<pos.cost_per_share
                * (365 * pos.yield_rate[1][2] + pos.yield_rate[1][1] * (d - pos.date_added)),
              365 * pos.yield_rate[1][2]>>)
ExpectedAddend(pos, d) ==
  IF d < pos.date_added THEN [mtm |-> RInt(0), pnl |-> RInt(0)]
  ELSE IF pos.category = "Cash"
    THEN [mtm |-> RInt(pos.quantity * pos.cost_per_share), pnl |-> RInt(0)]
  ELSE [mtm |-> RMul(Accrued(pos, d), RInt(pos.quantity)),
        pnl |-> RMul(RSub(Accrued(pos, d), RInt(pos.cost_per_share)), RInt(pos.quantity))]
SnapshotChain(pos) ==
  LET rep == upper(reporting_currency)
      acct_ccy == AccountCurrency(pos.account_id, rep)
  IN  RMul(_lookup_fx_history(_get_fx_rates, upper(pos.currency), acct_ccy),
           _lookup_fx_history(_get_fx_rates, acct_ccy, rep))

\* C16: on every axis date each Cash or GIC position of the request adds
\* nothing before its open date; from then on Cash adds mtm = qty x cost and
\* pnl = 0, a GIC adds mtm = cost x (1 + yield x days / 365) x qty and
\* pnl = (accrued - cost) x qty, each converted by the snapshot rates of the
\* position's two legs; cash_gic is the sum of the mtm addends, and the
\* point's mtm and pnl are the equity values plus these addends.
C16_CashGicContribution ==
  (AggReturned /\ cres.status = 200) =>
    \A i \in 1..Len(cres.df) :
      LET pt == cres.df[i]
          held == CashGicOf(creq.account_id)
          mtm == RSum([k \in {p.id : p \in held} |->
                   RMul(ExpectedAddend(CHOOSE p \in held : p.id = k, pt.date).mtm,
                        SnapshotChain(CHOOSE p \in held : p.id = k))])
          pnl == RSum([k \in {p.id : p \in held} |->
                   RMul(ExpectedAddend(CHOOSE p \in held : p.id = k, pt.date).pnl,
                        SnapshotChain(CHOOSE p \in held : p.id = k))])
      IN  /\ pt.date \in cres.trace.all_dates
          /\ pt.cash_gic = mtm
          /\ pt.mtm = RAdd(cres.trace.equity[pt.date].mtm, mtm)
          /\ pt.pnl = RAdd(cres.trace.equity[pt.date].pnl, pnl)

\* The GIC of cost 100 and yield 1/20 opened on day 9, and 3 units of USD
\* cash at 2 opened on day 10, with USD/CAD = 27/20: day 9 shows the GIC at
\* 100 and no cash; day 374, 365 days on, shows 105 + 6 x 27/20 = 1131/10
\* and a PnL of 5 over the equity PnL.
C16_Witness ==
  /\ AggReturned
  /\ cres.status = 200
  /\ positions = AggPositions1
  /\ creq.account_id = None
  /\ HasRow("USD/CAD")
  /\ Len(cres.df) = 2
  /\ cres.df[1].date = 9
  /\ cres.df[1].cash_gic = RInt(100)
  /\ cres.df[2].date = 374
  /\ cres.df[2].cash_gic = <<1131, 10>>
  /\ RSub(cres.df[2].pnl, cres.trace.equity[374].pnl) = RInt(5)

\* Every price series of the request came back empty: in live mode the
\* source has no row of any requested symbol from its start date on.
NoSeries == DOMAIN cres.trace.sym_dfs = {}
SourceHasNone ==
  \A s \in {p.symbol : p \in EquityOf(creq.account_id)} :
    fetch_history(history_source, s,
                  MinOf({p.date_added : p \in SymGroup(EquityOf(creq.account_id), s)})) = <<>>

\* C17: an aggregate request is answered 404 exactly when no Equity position
\* matches the filter, and then nothing is fetched or written; when positions
\* match and every price series is empty it is answered 503 in live mode and
\* with a successful empty series in cache mode; 503 is given in no other
\* case, and a served series has a point only on dates some symbol was
\* observed, so no zero-filled series is returned.
C17_AggregateOutcomes ==
  AggReturned =>
    /\ cres.status \in {200, 404, 503}
    /\ (cres.status = 404) <=> (EquityOf(creq.account_id) = {})
    /\ cres.status = 404 => (cres.ext = 0 /\ price_cache = cres.before)
    /\ (cres.status = 503) <=>
         (EquityOf(creq.account_id) # {} /\ ~creq.use_cache /\ NoSeries)
    /\ (EquityOf(creq.account_id) # {} /\ ~creq.use_cache) => (NoSeries <=> SourceHasNone)
    /\ (EquityOf(creq.account_id) # {} /\ creq.use_cache /\ NoSeries) =>
         (cres.status = 200 /\ cres.df = <<>> /\ cres.ext = 0)
    /\ cres.status = 200 =>
         /\ (cres.df = <<>>) <=> NoSeries
         /\ {cres.df[i].date : i \in 1..Len(cres.df)} =
              UNION {{cres.trace.sym_dfs[s][j][1] : j \in 1..Len(cres.trace.sym_dfs[s])} :
                       s \in DOMAIN cres.trace.sym_dfs}

\* The source has no SAP price and the request is live: three fetches were
\* made (the symbol and its two currency series) and the answer is 503.
C17_Witness ==
  /\ AggReturned
  /\ positions = AggPositions3
  /\ creq.account_id = None
  /\ SourceHasNone
  /\ ~creq.use_cache
  /\ cres.status = 503
  /\ cres.ext = 3
  /\ cres.df = <<>>

\* The rows of a symbol that carry a price, and the price of the newest one.
PricedRows(symbol) == {r \in market_data : r.symbol = symbol /\ r.last_price # None}
LatestRecordedPrice(symbol) ==
  (CHOOSE r \in PricedRows(symbol) :
     \A q \in PricedRows(symbol) : q.timestamp <= r.timestamp).last_price[1]
SummaryReturned == response.kind = "get_summary"

\* C18: in a summary, an Equity position whose symbol has a recorded market
\* price is valued at the latest such price, and every GIC, Cash and Dividend
\* position is valued at its cost per unit with pnl_account and pnl_reporting
\* 0, whatever market_data rows exist.
C18_SnapshotSpotPrice ==
  SummaryReturned =>
    \A e \in response.body.positions :
      /\ (e.category = "Equity" /\ PricedRows(e.symbol) # {})
           => e.spot_price = RInt(LatestRecordedPrice(e.symbol))
      /\ e.category \in {"GIC", "Cash", "Dividend"}
           => /\ e.spot_price = RInt(e.cost_per_share)
              /\ RZero(e.pnl_account)
              /\ RZero(e.pnl_reporting)

\* The worked example: AAPL, quantity 10, cost 100, latest price 150, held in
\* the USD account, USD/CAD = 1.35 on file, reporting currency CAD.
ExampleHolding(e) ==
  /\ e.symbol = "AAPL" /\ e.category = "Equity"
  /\ e.quantity = 10 /\ e.cost_per_share = 100
  /\ e.stock_currency = "USD" /\ e.account_currency = "USD"
ExampleState ==
  /\ reporting_currency = "CAD"
  /\ "AAPL" \in DOMAIN _get_latest_prices /\ _get_latest_prices["AAPL"] = 150
  /\ "USD/CAD" \in DOMAIN _get_latest_fx_rates
  /\ _get_latest_fx_rates["USD/CAD"] = <<27, 20>>

\* C19: every position of a summary carries both conversion factors, with
\* mtm_account = spot * qty * fx_stock_to_account, mtm_reporting =
\* mtm_account * fx_account_to_reporting and the same for PnL with
\* (spot - cost); the worked example gives 1500, 500, 2025 and 675.
C19_TwoHopConversion ==
  SummaryReturned =>
    \A e \in response.body.positions :
      /\ e.mtm_account =
           RMul(RMul(e.spot_price, RInt(e.quantity)), e.fx_stock_to_account)
      /\ e.pnl_account =
           RMul(RMul(RSub(e.spot_price, RInt(e.cost_per_share)), RInt(e.quantity)),
                e.fx_stock_to_account)
      /\ e.mtm_reporting = RMul(e.mtm_account, e.fx_account_to_reporting)
      /\ e.pnl_reporting = RMul(e.pnl_account, e.fx_account_to_reporting)
      /\ (ExampleState /\ ExampleHolding(e))
           => /\ e.mtm_account = RInt(1500)
              /\ e.pnl_account = RInt(500)
              /\ e.mtm_reporting = RInt(2025)
              /\ e.pnl_reporting = RInt(675)
C19_Witness ==
  /\ SummaryReturned
  /\ ExampleState
  /\ \E e \in response.body.positions :
       /\ ExampleHolding(e)
       /\ e.fx_stock_to_account = One
       /\ e.fx_account_to_reporting = <<27, 20>>
       /\ e.mtm_reporting = RInt(2025)

\* The portfolio total a summary is taken over: the sum of the positions'
\* mtm_reporting.
PortfolioMtm == SumMtm(response.body.positions)

\* C20: when the total portfolio MTM is zero (no position, or holdings that
\* net to zero), every position and every group of the summary has
\* proportion 0.
C20_ZeroTotalGivesZeroProportions ==
  (SummaryReturned /\ RZero(PortfolioMtm)) =>
    /\ \A e \in response.body.positions : RZero(e.proportion)
    /\ \A g \in response.body.groups : RZero(g.proportion)

\* C21: every stored position's account_id refers to exactly one existing
\* account, after any sequence of account and position create, update and
\* delete operations.
C21_ReferentialIntegrity ==
  \A p \in positions : Cardinality({a \in accounts : a.id = p.account_id}) = 1

\* C22: every stored GIC position has a yield rate and every stored Equity
\* position has a non-empty symbol, after any sequence of position create
\* and update operations of the REST routes and of the assistant.
C22_StoredPositionsAreValid ==
  \A p \in positions :
    /\ p.category = "GIC" => p.yield_rate # None
    /\ p.category = "Equity" => p.symbol # ""

\* The Equity positions of AAPL, the group whose summed quantity GET
\* /history/AAPL divides by.
StoredGroup == {p \in positions : p.symbol = "AAPL" /\ p.category = "Equity"}
HistoryAnswered == response.kind = "get_history"

\* C30: when a historical query computes the volume-weighted average cost
\* of the stored Equity positions of a symbol, the summed quantity it
\* divides by is not zero and the query does not fail with a division
\* error.
C30_AverageCostDivisorNonZero ==
  (HistoryAnswered /\ StoredGroup # {}) =>
    /\ SumQuantity(StoredGroup) # 0
    /\ response.status # 500

\* The newest row of a key in each table.
NewestPriceRow(symbol) ==
  CHOOSE r \in market_data :
    r.symbol = symbol /\ \A q \in market_data : q.symbol = symbol => q.timestamp <= r.timestamp
NewestFxRow(pair) ==
  CHOOSE r \in fx_rates :
    r.pair = pair /\ \A q \in fx_rates : q.pair = pair => q.timestamp <= r.timestamp
\* What the reads return is the value of the newest row of every key (no
\* price when that row carries none), and one key has one newest row.
CurrentIsNewest ==
  /\ \A r \in market_data :
       /\ Cardinality({q \in market_data :
                         q.symbol = r.symbol /\ q.timestamp = NewestPriceRow(r.symbol).timestamp}) = 1
       /\ IF NewestPriceRow(r.symbol).last_price = None
            THEN r.symbol \notin DOMAIN _get_latest_prices
            ELSE /\ r.symbol \in DOMAIN _get_latest_prices
                 /\ _get_latest_prices[r.symbol] = NewestPriceRow(r.symbol).last_price[1]
  /\ DOMAIN _get_latest_prices \subseteq {r.symbol : r \in market_data}
  /\ \A r \in fx_rates :
       /\ Cardinality({q \in fx_rates :
                         q.pair = r.pair /\ q.timestamp = NewestFxRow(r.pair).timestamp}) = 1
       /\ r.pair \in DOMAIN _get_latest_fx_rates
       /\ _get_latest_fx_rates[r.pair] = NewestFxRow(r.pair).rate
  /\ DOMAIN _get_latest_fx_rates = {r.pair : r \in fx_rates}

CommitsFailedFetch(t, s) ==
  /\ pc[t] = "commit"
  /\ pc'[t] = "finally"
  /\ \E row \in session[t].md : row.symbol = s /\ row.last_price = None

\* C24: when a refresh whose price fetch failed for one symbol commits, the
\* rows it fetched for the other symbols and for the FX pairs are stored, and
\* the current price of that symbol is the previously fetched one, as before.
C24_FailedFetchIsNoNewData ==
  [][\A t \in Threads : \A s \in DOMAIN _get_latest_prices :
       CommitsFailedFetch(t, s) =>
         /\ session[t].md \subseteq market_data'
         /\ session[t].fx \subseteq fx_rates'
         /\ s \in DOMAIN _get_latest_prices'
         /\ _get_latest_prices'[s] = _get_latest_prices[s]
    ]_vars

\* The factor the Currency Resolver gives for a leg, 1.0 standing in when
\* the pair has no direct rate, no inverse rate and no path through the
\* reporting currency.
ResolvedOrPar(from_ccy, to_ccy) ==
  LET r == lookup(_get_latest_fx_rates, upper(reporting_currency), from_ccy, to_ccy)
  IN  IF r = None THEN One ELSE r
StoredPosition(id) == CHOOSE p \in positions : p.id = id

\* C25: in a summary each leg of each position is the factor of the
\* Currency Resolver, 1.0 only standing in for a pair that does not resolve:
\* with trade->reporting and reporting->account on file and no direct or
\* inverse row, fx_stock_to_account is their product.
C25_SnapshotLegsThroughResolver ==
  response.kind = "summary" =>
    \A leg \in response.body.legs :
      /\ leg.fx_stock_to_account =
           ResolvedOrPar(upper(StoredPosition(leg.id).currency),
                         AccountCurrency(StoredPosition(leg.id).account_id,
                                         upper(reporting_currency)))
      /\ leg.fx_account_to_reporting =
           ResolvedOrPar(AccountCurrency(StoredPosition(leg.id).account_id,
                                         upper(reporting_currency)),
                         upper(reporting_currency))

\* C26: every execution of sync_market_data that acquired the refresh lock
\* has released it when it is over, on every exit path: when no execution
\* is under way the lock is free, so the next trigger runs.
C26_LockReleasedOnEveryExit ==
  (\A t \in Threads : pc[t] = "idle") => ~sync_lock

\* The rows of call c that reads can see.
VisibleRows(c) == {r \in market_data \cup fx_rates : r.call = c}
\* Thread t commits in this step.
CommitStep(t) == pc[t] = "commit" /\ pc'[t] = "finally"

\* C27: a refresh is all-or-nothing.  The rows it added become visible in
\* one step, all of them together, when it commits; no other step of it
\* changes what reads see; and only committed refreshes have visible rows,
\* so a refresh that raised and rolled back has none.
C27_RefreshAllOrNothing ==
  [][/\ \A t \in Threads :
          IF CommitStep(t)
            THEN /\ market_data' = market_data \cup session[t].md
                 /\ fx_rates' = fx_rates \cup session[t].fx
                 /\ VisibleRows(run[t]) = {}
            ELSE pc'[t] # pc[t] => UNCHANGED <<market_data, fx_rates>>
     /\ \A c \in 1..Len(calls') :
          calls'[c].status # "committed" => VisibleRows(c)' = {}
    ]_vars
\* The first refresh committed its rows; the second fetched prices and FX
\* rates (the clock has advanced four times), raised and was rolled back,
\* and only the rows of the first are visible.
C27_Witness ==
  /\ Len(calls) = 2
  /\ calls[1].status = "committed"
  /\ calls[2].status = "rolledback"
  /\ clock = 4
  /\ VisibleRows(1) # {}
  /\ VisibleRows(2) = {}

\* The rate map holds a cycle of contradictory rates: a row for a pair and a
\* row for its inverse that are not reciprocal.
ContradictoryMap ==
  \E a, b \in Currencies :
    /\ a # b
    /\ PairKey(a, b) \in DOMAIN _get_latest_fx_rates
    /\ PairKey(b, a) \in DOMAIN _get_latest_fx_rates
    /\ RMul(_get_latest_fx_rates[PairKey(a, b)], _get_latest_fx_rates[PairKey(b, a)]) # One
NestingOf(a, b) ==
  lookup_nesting(_get_latest_fx_rates, upper(reporting_currency), a, b, MaxNesting)

\* C28: for every rate map and every pair of currencies the matrix lookup
\* returns, a rate or null, and its calls nest at most one level deep:
\* an inner call has the anchor as one argument and calls no further.
C28_LookupTerminates ==
  \A a, b \in Currencies :
    /\ NestingOf(a, b) <= 1
    /\ LET r == lookup(_get_latest_fx_rates, upper(reporting_currency), a, b)
       IN  r = None \/ RPos(r)
\* A matrix was served from a contradictory rate map in which one pair is
\* triangulated: its lookup called itself and returned a rate.
C28_Witness ==
  /\ response.kind = "fx_matrix"
  /\ ContradictoryMap
  /\ \E a, b \in MatrixCurrencies :
       /\ NestingOf(a, b) = 1
       /\ response.body.matrix[a][b] # None

\* The sum of total_mtm_reporting over the groups of the summary.
GroupsMtm ==
  RSum([k \in {g.group_key : g \in response.body.groups} |->
          (CHOOSE g \in response.body.groups : g.group_key = k).total_mtm_reporting])

\* C29: the total_mtm_reporting of a summary equals the sum of
\* mtm_reporting over its positions and the sum of total_mtm_reporting over
\* its groups, for every portfolio, an empty one and one whose holdings net
\* to zero included.
C29_TotalIsSumOfPositionsAndGroups ==
  SummaryReturned =>
    /\ response.body.total_mtm_reporting = PortfolioMtm
    /\ response.body.total_mtm_reporting = GroupsMtm

====
